---- MODULE Spec2Model ----
(***************************************************************************)
(* Model of the spreadsheet-ingestion core of resultmarketing-ai:          *)
(* the Malaysian phone utilities (utils/phone_formatter.py), the           *)
(* SpreadsheetService (services/spreadsheet_service.py) and the            *)
(* /api/spreadsheet analyze and process handlers (routers/spreadsheet.py). *)
(*                                                                         *)
(* A Python str is a sequence of one-character strings; None (and pandas   *)
(* NaN) is the one-element sequence None, which is no Python str of the    *)
(* model because its only element is not a single character.              *)
(***************************************************************************)
EXTENDS Integers, Sequences, FiniteSets, TLC

VARIABLES
    temp_storage,     \* routers/spreadsheet.py _temp_storage: filename -> bytes
    debug,            \* settings.debug, read from the environment at start-up
    uploaded,         \* history: per caller, the bytes of its analyzed files that it has not processed since
    analyzed,         \* history: filenames whose analyze succeeded and that no process has consumed since
    request,          \* the request the last handler invocation served
    response,         \* the response it returned
    phone,            \* phone harness: the raw phone string
    phone_out,        \* phone harness: results of the phone utilities on it
    name,             \* name harness: the raw name, as a list of words joined by blanks
    name_out,         \* name harness: result of _clean_name
    sheet,            \* detection harness: the DataFrame handed to detect_columns
    detect_out,       \* detection harness: result of detect_columns
    df,               \* dedup harness: the DataFrame handed to deduplicate
    column_mappings,  \* dedup harness: the column mapping handed to deduplicate
    dedup_out,        \* dedup harness: result of deduplicate
    quality_out,      \* quality harness: result of validate_data on df
    card,             \* merge harness: a heuristic result, the collaborator's reply and their merge
    pending           \* the process requests that have arrived, and the response of those served

vars == <<temp_storage, debug, uploaded, analyzed, request, response, phone, phone_out, name, name_out,
          sheet, detect_out, df, column_mappings, dedup_out, quality_out, card, pending>>

pipelineVars == <<temp_storage, debug, uploaded, analyzed, request, response>>
phoneVars == <<phone, phone_out>>
nameVars == <<name, name_out>>
detectVars == <<sheet, detect_out>>
dedupVars == <<df, column_mappings, dedup_out, quality_out>>
mergeVars == <<card>>
concurrentVars == <<pending>>

----------------------------------------------------------------------------
(* Python values and str methods *)

None == <<"None">>
Unset == <<"unset">>

Digits == {"0", "1", "2", "3", "4", "5", "6", "7", "8", "9"}
LowerLetters == <<"a", "b", "c", "d", "e", "f", "g", "h", "i", "j", "k", "l", "m", "n", "o", "p", "q", "r", "s", "t", "u", "v", "w", "x", "y", "z">>
UpperLetters == <<"A", "B", "C", "D", "E", "F", "G", "H", "I", "J", "K", "L", "M", "N", "O", "P", "Q", "R", "S", "T", "U", "V", "W", "X", "Y", "Z">>

Min(a, b) == IF a <= b THEN a ELSE b
Max(a, b) == IF a >= b THEN a ELSE b

IsDigit(c) == c \in Digits
IsSpace(c) == c = " "
IsLower(c) == \E i \in 1..Len(LowerLetters) : LowerLetters[i] = c
IsUpper(c) == \E i \in 1..Len(UpperLetters) : UpperLetters[i] = c
IsAlpha(c) == IsLower(c) \/ IsUpper(c)

char_lower(c) ==
    IF IsUpper(c)
    THEN LowerLetters[CHOOSE i \in 1..Len(UpperLetters) : UpperLetters[i] = c]
    ELSE c
char_upper(c) ==
    IF IsLower(c)
    THEN UpperLetters[CHOOSE i \in 1..Len(LowerLetters) : LowerLetters[i] = c]
    ELSE c

\* s[a:b] and s[a:] with Python's 0-based, clamped indices (a, b >= 0)
Slice(s, a, b) == IF a >= Min(b, Len(s)) THEN <<>> ELSE SubSeq(s, a + 1, Min(b, Len(s)))
SliceFrom(s, a) == Slice(s, a, Len(s))

\* a local variable: the value v is computed once and the rest F reads it
Local(v, F(_)) == CHOOSE y \in {F(x) : x \in {v}} : TRUE

str_startswith(s, p) == Len(s) >= Len(p) /\ SubSeq(s, 1, Len(p)) = p
str_lower(s) == [i \in 1..Len(s) |-> char_lower(s[i])]
\* sub in s
str_contains(s, sub) ==
    \E i \in 0..(Len(s) - Len(sub)) : Slice(s, i, i + Len(sub)) = sub

RECURSIVE str_lstrip(_)
str_lstrip(s) == IF s # <<>> /\ IsSpace(Head(s)) THEN str_lstrip(Tail(s)) ELSE s
RECURSIVE str_rstrip(_)
str_rstrip(s) ==
    IF s # <<>> /\ IsSpace(s[Len(s)]) THEN str_rstrip(SubSeq(s, 1, Len(s) - 1)) ELSE s
str_strip(s) == str_rstrip(str_lstrip(s))

\* s.lstrip("+")
RECURSIVE lstrip_plus(_)
lstrip_plus(s) == IF s # <<>> /\ Head(s) = "+" THEN lstrip_plus(Tail(s)) ELSE s

\* " ".join(words)
RECURSIVE str_join(_)
str_join(words) ==
    IF words = <<>> THEN <<>>
    ELSE IF Len(words) = 1 THEN words[1]
    ELSE words[1] \o <<" ">> \o str_join(Tail(words))

\* s.split(): the maximal runs of non-blank characters
RECURSIVE str_split(_)
str_split(s) ==
    LET t == str_lstrip(s)
        n == IF \E i \in 1..Len(t) : IsSpace(t[i])
             THEN (CHOOSE i \in 1..Len(t) :
                      IsSpace(t[i]) /\ \A j \in 1..(i - 1) : ~IsSpace(t[j])) - 1
             ELSE Len(t)
    IN IF t = <<>> THEN <<>> ELSE <<SubSeq(t, 1, n)>> \o str_split(SliceFrom(t, n))

----------------------------------------------------------------------------
(* utils/phone_formatter.py *)

MOBILE_PREFIXES == <<<<"1", "0">>, <<"1", "1">>, <<"1", "2">>, <<"1", "3">>, <<"1", "4">>, <<"1", "6">>, <<"1", "7">>, <<"1", "8">>, <<"1", "9">>>>
LANDLINE_PREFIXES == <<<<"3">>, <<"4">>, <<"5">>, <<"6">>, <<"7">>, <<"8">>, <<"9">>>>
COUNTRY_CODE == <<"6", "0">>

MsgEmpty == "Phone number is empty"
MsgTooShort == "Phone number is too short"
MsgTooLong == "Phone number is too long"
MsgInvalidPrefix == "Invalid Malaysian phone prefix. Mobile should start with 10, 11, 12, 13, 14, 16, 17, 18, 19"
MsgValid == "Valid Malaysian phone number"

clean_phone_number(p) ==
    IF p = <<>> THEN <<>>
    ELSE LET has_plus == str_startswith(str_strip(p), <<"+">>)
             cleaned == SelectSeq(p, IsDigit)
         IN IF has_plus THEN <<"+">> \o cleaned ELSE cleaned

\* the "cleaned" of format and validate after the two prefix removals
strip_country_only(p) ==
    LET cleaned == lstrip_plus(clean_phone_number(p))
    IN IF str_startswith(cleaned, COUNTRY_CODE) THEN SliceFrom(cleaned, 2) ELSE cleaned

strip_country_and_zero(p) ==
    LET c0 == lstrip_plus(clean_phone_number(p))
        c1 == IF str_startswith(c0, COUNTRY_CODE) THEN SliceFrom(c0, 2) ELSE c0
    IN IF str_startswith(c1, <<"0">>) THEN SliceFrom(c1, 1) ELSE c1

starts_with_any(s, prefixes) ==
    \E i \in 1..Len(prefixes) : str_startswith(s, prefixes[i])

is_malaysian_number(p) ==
    LET cleaned == lstrip_plus(clean_phone_number(p))
    IN IF str_startswith(cleaned, COUNTRY_CODE) THEN TRUE
       ELSE IF str_startswith(cleaned, <<"0">>)
               /\ (starts_with_any(SliceFrom(cleaned, 1), MOBILE_PREFIXES)
                   \/ starts_with_any(SliceFrom(cleaned, 1), LANDLINE_PREFIXES))
            THEN TRUE
       ELSE starts_with_any(cleaned, MOBILE_PREFIXES)

format_malaysian_phone(p, include_country_code) ==
    IF p = <<>> THEN None
    ELSE
    LET cleaned == strip_country_and_zero(p)
        is_mobile == starts_with_any(cleaned, MOBILE_PREFIXES)
        is_landline == starts_with_any(cleaned, LANDLINE_PREFIXES)
        lead == IF include_country_code THEN <<"+", "6", "0", " ">> ELSE <<"0">>
    IN IF Len(cleaned) < 8 \/ Len(cleaned) > 10 THEN None
       ELSE IF ~is_mobile /\ ~is_landline THEN None
       ELSE IF is_mobile
            THEN IF Len(cleaned) >= 9
                 THEN lead \o Slice(cleaned, 0, 2) \o <<"-">> \o Slice(cleaned, 2, 5)
                           \o <<" ">> \o SliceFrom(cleaned, 5)
                 ELSE lead \o Slice(cleaned, 0, 2) \o <<"-">> \o SliceFrom(cleaned, 2)
            ELSE IF Len(cleaned) >= 8
                 THEN lead \o Slice(cleaned, 0, 1) \o <<"-">> \o Slice(cleaned, 1, 5)
                           \o <<" ">> \o SliceFrom(cleaned, 5)
                 ELSE lead \o Slice(cleaned, 0, 1) \o <<"-">> \o SliceFrom(cleaned, 1)

validate_malaysian_phone_prefix_first(p) ==
    IF p = <<>> THEN <<FALSE, MsgEmpty>>
    ELSE
    LET cleaned == strip_country_and_zero(p)
        is_mobile == starts_with_any(cleaned, MOBILE_PREFIXES)
        is_landline == starts_with_any(cleaned, LANDLINE_PREFIXES)
    IN IF ~is_mobile /\ ~is_landline THEN <<FALSE, MsgInvalidPrefix>>
       ELSE IF Len(cleaned) < 8 THEN <<FALSE, MsgTooShort>>
       ELSE IF Len(cleaned) > 10 THEN <<FALSE, MsgTooLong>>
       ELSE <<TRUE, MsgValid>>

validate_malaysian_phone_max_nine(p) ==
    IF p = <<>> THEN <<FALSE, MsgEmpty>>
    ELSE
    LET cleaned == strip_country_and_zero(p)
        is_mobile == starts_with_any(cleaned, MOBILE_PREFIXES)
        is_landline == starts_with_any(cleaned, LANDLINE_PREFIXES)
    IN IF Len(cleaned) < 8 THEN <<FALSE, MsgTooShort>>
       ELSE IF Len(cleaned) > 9 THEN <<FALSE, MsgTooLong>>
       ELSE IF ~is_mobile /\ ~is_landline THEN <<FALSE, MsgInvalidPrefix>>
       ELSE <<TRUE, MsgValid>>

validate_malaysian_phone(p) ==
    IF p = <<>> THEN <<FALSE, MsgEmpty>>
    ELSE
    LET cleaned == strip_country_and_zero(p)
        is_mobile == starts_with_any(cleaned, MOBILE_PREFIXES)
        is_landline == starts_with_any(cleaned, LANDLINE_PREFIXES)
    IN IF Len(cleaned) < 8 THEN <<FALSE, MsgTooShort>>
       ELSE IF Len(cleaned) > 10 THEN <<FALSE, MsgTooLong>>
       ELSE IF ~is_mobile /\ ~is_landline THEN <<FALSE, MsgInvalidPrefix>>
       ELSE <<TRUE, MsgValid>>

normalize_phone_keep_zero(p) ==
    IF p = <<>> THEN <<>>
    ELSE
    LET cleaned == lstrip_plus(clean_phone_number(p))
    IN IF ~str_startswith(cleaned, COUNTRY_CODE)
       THEN COUNTRY_CODE \o cleaned
       ELSE cleaned

normalize_phone_for_comparison(p) ==
    IF p = <<>> THEN <<>>
    ELSE
    LET cleaned == lstrip_plus(clean_phone_number(p))
    IN IF ~str_startswith(cleaned, COUNTRY_CODE)
       THEN IF str_startswith(cleaned, <<"0">>)
            THEN COUNTRY_CODE \o SliceFrom(cleaned, 1)
            ELSE COUNTRY_CODE \o cleaned
       ELSE cleaned

----------------------------------------------------------------------------
(* Phone harness: a raw phone string is drawn from PhoneInputs, and each    *)
(* action applies one of the phone utilities to it and records the result. *)

MaxTail == 11

DigitChars == <<"0", "1", "2", "3", "4", "5", "6", "7", "8", "9">>
\* k filler digits 3, 4, 5, ..., 9, 0, 1, ...
Filler(k) == [i \in 1..k |-> DigitChars[((i + 2) % 10) + 1]]

PhoneCountryParts == {<<>>, <<"+">>, <<"+", "6", "0">>, <<"6", "0">>, <<" ", "+", "6", "0">>}
PhoneZeroParts == {<<>>, <<"0">>}
PhoneHeads == {<<"1", "2">>, <<"1", "5">>, <<"3">>, <<"2">>, <<"6", "0">>, <<"0">>}
PhoneSeps == {<<>>, <<" ">>, <<"-">>}

\* digits written in groups of 2, 3 and the rest, separated by sep
Grouped(body, sep) ==
    Slice(body, 0, 2)
      \o (IF Len(body) > 2 THEN sep \o Slice(body, 2, 5) ELSE <<>>)
      \o (IF Len(body) > 5 THEN sep \o SliceFrom(body, 5) ELSE <<>>)

RawPhone(cc, zero, head, k, sep) ==
    cc \o (IF cc # <<>> THEN sep ELSE <<>>) \o zero \o Grouped(head \o Filler(k), sep)

PhoneInputs ==
    {<<>>} \cup
    {RawPhone(cc, zero, head, k, sep) :
        cc \in PhoneCountryParts, zero \in PhoneZeroParts, head \in PhoneHeads,
        k \in 0..MaxTail, sep \in PhoneSeps}

PhoneOutInit ==
    [validate |-> Unset, format |-> Unset, format_local |-> Unset,
     normalize |-> Unset, normalize_formatted |-> Unset, is_malaysian |-> <<>>]

PhoneIdle == phone = <<>> /\ phone_out = PhoneOutInit

PhoneValidate ==
    /\ phone_out.validate = Unset
    /\ phone_out' = [phone_out EXCEPT !.validate = validate_malaysian_phone(phone)]
    /\ UNCHANGED phone
    /\ UNCHANGED <<pipelineVars, nameVars, detectVars, dedupVars, mergeVars, concurrentVars>>

PhoneFormat ==
    /\ phone_out.format = Unset
    /\ phone_out' = [phone_out EXCEPT !.format = format_malaysian_phone(phone, TRUE)]
    /\ UNCHANGED phone
    /\ UNCHANGED <<pipelineVars, nameVars, detectVars, dedupVars, mergeVars, concurrentVars>>

PhoneFormatLocal ==
    /\ phone_out.format_local = Unset
    /\ phone_out' = [phone_out EXCEPT !.format_local = format_malaysian_phone(phone, FALSE)]
    /\ UNCHANGED phone
    /\ UNCHANGED <<pipelineVars, nameVars, detectVars, dedupVars, mergeVars, concurrentVars>>

PhoneNormalize ==
    /\ phone_out.normalize = Unset
    /\ phone_out' = [phone_out EXCEPT !.normalize = normalize_phone_for_comparison(phone)]
    /\ UNCHANGED phone
    /\ UNCHANGED <<pipelineVars, nameVars, detectVars, dedupVars, mergeVars, concurrentVars>>

\* phone_out.is_malaysian holds the answer of is_malaysian_number once it is called
PhoneIsMalaysian ==
    /\ phone_out.is_malaysian = <<>>
    /\ phone_out' = [phone_out EXCEPT !.is_malaysian = <<is_malaysian_number(phone)>>]
    /\ UNCHANGED phone
    /\ UNCHANGED <<pipelineVars, nameVars, detectVars, dedupVars, mergeVars, concurrentVars>>

\* normalize_phone_for_comparison applied to the string format returned
PhoneNormalizeFormatted ==
    /\ phone_out.format \notin {Unset, None}
    /\ phone_out.normalize_formatted = Unset
    /\ phone_out' = [phone_out EXCEPT
                        !.normalize_formatted = normalize_phone_for_comparison(phone_out.format)]
    /\ UNCHANGED phone
    /\ UNCHANGED <<pipelineVars, nameVars, detectVars, dedupVars, mergeVars, concurrentVars>>

----------------------------------------------------------------------------
(* services/spreadsheet_service.py: cell cleaners *)

\* str.title(): a letter is upper-cased when no letter precedes it, lower-cased otherwise
str_title(s) ==
    [i \in 1..Len(s) |->
        IF IsAlpha(s[i])
        THEN IF i > 1 /\ IsAlpha(s[i - 1]) THEN char_lower(s[i]) ELSE char_upper(s[i])
        ELSE s[i]]

\* str.isupper(): at least one letter and no lower-case letter
str_isupper(s) ==
    /\ \E i \in 1..Len(s) : IsAlpha(s[i])
    /\ \A i \in 1..Len(s) : ~IsLower(s[i])

honorifics ==
    <<<<"d", "r">>, <<"d", "r", ".">>, <<"d", "a", "t", "o", "'">>, <<"d", "a", "t", "u", "k">>, <<"t", "a", "n", " ", "s", "r", "i">>, <<"t", "u", "n">>, <<"d", "a", "t", "i", "n">>,
      <<"m", "r">>, <<"m", "r", "s">>, <<"m", "s">>, <<"p", "r", "o", "f">>>>

in_list(x, list) == \E i \in 1..Len(list) : list[i] = x

clean_word_title_all(word) == IF str_isupper(word) THEN word ELSE str_title(word)

\* the body of the loop over words in _clean_name
clean_word(word) ==
    IF in_list(str_lower(word), honorifics) \/ str_isupper(word)
    THEN word
    ELSE str_title(word)

clean_name(n) ==
    IF n = None THEN None
    ELSE LET words == str_split(str_strip(n))
             cleaned_words == [i \in 1..Len(words) |-> clean_word(words[i])]
         IN IF cleaned_words # <<>> THEN str_join(cleaned_words) ELSE None

clean_email_pattern(s) ==
    \* ^[a-zA-Z0-9._%+-]+@[a-zA-Z0-9.-]+\.[a-zA-Z]{2,}$
    \E at \in 2..Len(s), dot \in 3..Len(s) :
        /\ at + 1 < dot
        /\ s[at] = "@"
        /\ s[dot] = "."
        /\ \A i \in 1..(at - 1) :
              IsAlpha(s[i]) \/ IsDigit(s[i]) \/ s[i] \in {".", "_", "%", "+", "-"}
        /\ \A i \in (at + 1)..(dot - 1) :
              IsAlpha(s[i]) \/ IsDigit(s[i]) \/ s[i] \in {".", "-"}
        /\ Len(s) - dot >= 2
        /\ \A i \in (dot + 1)..Len(s) : IsAlpha(s[i])

clean_email(e) ==
    IF e = None THEN None
    ELSE LET email_str == str_lower(str_strip(e))
         IN IF clean_email_pattern(email_str) THEN email_str ELSE None

clean_phone(p) ==
    IF p = None THEN None
    ELSE LET phone_str == str_strip(p)
             formatted == format_malaysian_phone(phone_str, TRUE)
             keep(c) == IsDigit(c) \/ c = "+"
             cleaned == SelectSeq(phone_str, keep)
         IN IF formatted # None /\ formatted # <<>> THEN formatted
            ELSE IF Len(cleaned) >= 8 THEN cleaned ELSE None

----------------------------------------------------------------------------
(* Name harness: a raw name is built word by word, then _clean_name is     *)
(* applied to it.                                                          *)

MaxWords == 4

NameWords == {<<"d", "a", "t", "o", "'">>, <<"A", "H", "M", "A", "D">>, <<"b", "i", "n">>, <<"a", "b", "d", "u", "l", "l", "a", "h">>, <<"T", "a", "n">>, <<"s", "r", "i">>}

word_count(n) == IF n = None THEN 0 ELSE Len(str_split(n))

NameIdle == name = <<>> /\ name_out = Unset

NameAppendWord ==
    /\ name # None
    /\ name_out = Unset
    /\ word_count(name) < MaxWords
    /\ \E w \in NameWords :
          name' = IF name = <<>> THEN w ELSE name \o <<" ">> \o w
    /\ UNCHANGED name_out
    /\ UNCHANGED <<pipelineVars, phoneVars, detectVars, dedupVars, mergeVars, concurrentVars>>

NameLeadingBlank ==
    /\ name = <<>>
    /\ name_out = Unset
    /\ name' = <<" ">>
    /\ UNCHANGED name_out
    /\ UNCHANGED <<pipelineVars, phoneVars, detectVars, dedupVars, mergeVars, concurrentVars>>

NameMissing ==
    /\ name = <<>>
    /\ name_out = Unset
    /\ name' = None
    /\ UNCHANGED name_out
    /\ UNCHANGED <<pipelineVars, phoneVars, detectVars, dedupVars, mergeVars, concurrentVars>>

NameClean ==
    /\ name_out = Unset
    /\ name_out' = clean_name(name)
    /\ UNCHANGED name
    /\ UNCHANGED <<pipelineVars, phoneVars, detectVars, dedupVars, mergeVars, concurrentVars>>

----------------------------------------------------------------------------
(* pandas DataFrame: column labels, index labels and rows of cells (one    *)
(* cell per column, None for NaN). Column labels are distinct.             *)

DataFrame(columns, rows) ==
    [columns |-> columns, index |-> [i \in 1..Len(rows) |-> i - 1], rows |-> rows]

df_len(d) == Len(d.rows)
df_empty(d) == Len(d.rows) = 0 \/ Len(d.columns) = 0
has_column(d, c) == \E i \in 1..Len(d.columns) : d.columns[i] = c
column_pos(d, c) == CHOOSE i \in 1..Len(d.columns) : d.columns[i] = c
\* df[c] as the list of its cells (c must be a column)
column_values(d, c) == [r \in 1..Len(d.rows) |-> d.rows[r][column_pos(d, c)]]
\* df[c] = values
set_column(d, c, values) ==
    IF has_column(d, c)
    THEN [d EXCEPT !.rows = [r \in 1..Len(d.rows) |->
                                [d.rows[r] EXCEPT ![column_pos(d, c)] = values[r]]]]
    ELSE [d EXCEPT !.columns = Append(d.columns, c),
                   !.rows = [r \in 1..Len(d.rows) |-> Append(d.rows[r], values[r])]]
\* the rows at the given positions, index labels kept
take_rows(d, positions) ==
    [d EXCEPT !.index = [k \in 1..Len(positions) |-> d.index[positions[k]]],
              !.rows = [k \in 1..Len(positions) |-> d.rows[positions[k]]]]

notna(v) == v # None
dropna(values) == SelectSeq(values, notna)

----------------------------------------------------------------------------
(* config.py COLUMN_MAPPINGS and SpreadsheetService.detect_columns.        *)
(* Confidences are in hundredths: 95 is 0.95.                              *)

COLUMN_MAPPINGS ==
    <<
      [field |-> <<"n", "a", "m", "e">>,
       keywords |-> <<<<"n", "a", "m", "e">>, <<"f", "u", "l", "l", " ", "n", "a", "m", "e">>, <<"c", "o", "n", "t", "a", "c", "t", " ", "n", "a", "m", "e">>, <<"c", "l", "i", "e", "n", "t", " ", "n", "a", "m", "e">>, <<"n", "a", "m", "a">>, <<"c", "u", "s", "t", "o", "m", "e", "r", " ", "n", "a", "m", "e">>, <<"p", "r", "o", "s", "p", "e", "c", "t", " ", "n", "a", "m", "e">>>>],
      [field |-> <<"p", "h", "o", "n", "e">>,
       keywords |-> <<<<"p", "h", "o", "n", "e">>, <<"m", "o", "b", "i", "l", "e">>, <<"t", "e", "l">>, <<"t", "e", "l", "e", "p", "h", "o", "n", "e">>, <<"h", "a", "n", "d", "p", "h", "o", "n", "e">>, <<"h", "p">>, <<"c", "o", "n", "t", "a", "c", "t", " ", "n", "u", "m", "b", "e", "r">>, <<"p", "h", "o", "n", "e", " ", "n", "u", "m", "b", "e", "r">>, <<"n", "o", " ", "t", "e", "l">>, <<"n", "o", " ", "t", "e", "l", "e", "f", "o", "n">>>>],
      [field |-> <<"e", "m", "a", "i", "l">>,
       keywords |-> <<<<"e", "m", "a", "i", "l">>, <<"e", "-", "m", "a", "i", "l">>, <<"e", "m", "a", "i", "l", " ", "a", "d", "d", "r", "e", "s", "s">>, <<"e", "m", "e", "l">>>>],
      [field |-> <<"c", "o", "m", "p", "a", "n", "y">>,
       keywords |-> <<<<"c", "o", "m", "p", "a", "n", "y">>, <<"o", "r", "g", "a", "n", "i", "z", "a", "t", "i", "o", "n">>, <<"o", "r", "g", "a", "n", "i", "s", "a", "t", "i", "o", "n">>, <<"s", "y", "a", "r", "i", "k", "a", "t">>, <<"b", "u", "s", "i", "n", "e", "s", "s">>, <<"f", "i", "r", "m">>, <<"c", "o", "m", "p", "a", "n", "y", " ", "n", "a", "m", "e">>>>],
      [field |-> <<"t", "i", "t", "l", "e">>,
       keywords |-> <<<<"t", "i", "t", "l", "e">>, <<"p", "o", "s", "i", "t", "i", "o", "n">>, <<"d", "e", "s", "i", "g", "n", "a", "t", "i", "o", "n">>, <<"r", "o", "l", "e">>, <<"j", "o", "b", " ", "t", "i", "t", "l", "e">>, <<"j", "a", "w", "a", "t", "a", "n">>>>],
      [field |-> <<"i", "n", "d", "u", "s", "t", "r", "y">>,
       keywords |-> <<<<"i", "n", "d", "u", "s", "t", "r", "y">>, <<"s", "e", "c", "t", "o", "r">>, <<"i", "n", "d", "u", "s", "t", "r", "i">>, <<"b", "u", "s", "i", "n", "e", "s", "s", " ", "t", "y", "p", "e">>>>],
      [field |-> <<"a", "d", "d", "r", "e", "s", "s">>,
       keywords |-> <<<<"a", "d", "d", "r", "e", "s", "s">>, <<"a", "l", "a", "m", "a", "t">>, <<"l", "o", "c", "a", "t", "i", "o", "n">>, <<"o", "f", "f", "i", "c", "e", " ", "a", "d", "d", "r", "e", "s", "s">>>>],
      [field |-> <<"n", "o", "t", "e", "s">>,
       keywords |-> <<<<"n", "o", "t", "e", "s">>, <<"r", "e", "m", "a", "r", "k", "s">>, <<"c", "o", "m", "m", "e", "n", "t", "s">>, <<"c", "a", "t", "a", "t", "a", "n">>, <<"d", "e", "s", "c", "r", "i", "p", "t", "i", "o", "n">>>>],
      [field |-> <<"s", "o", "u", "r", "c", "e">>,
       keywords |-> <<<<"s", "o", "u", "r", "c", "e">>, <<"l", "e", "a", "d", " ", "s", "o", "u", "r", "c", "e">>, <<"r", "e", "f", "e", "r", "r", "a", "l">>, <<"s", "u", "m", "b", "e", "r">>>>],
      [field |-> <<"s", "t", "a", "t", "u", "s">>,
       keywords |-> <<<<"s", "t", "a", "t", "u", "s">>, <<"l", "e", "a", "d", " ", "s", "t", "a", "t", "u", "s">>, <<"s", "t", "a", "g", "e">>, <<"p", "i", "p", "e", "l", "i", "n", "e", " ", "s", "t", "a", "g", "e">>>>]
    >>

F_name == <<"n", "a", "m", "e">>
F_phone == <<"p", "h", "o", "n", "e">>
F_email == <<"e", "m", "a", "i", "l">>

keyword_matches(keyword, col_lower) ==
    str_contains(col_lower, keyword) \/ str_contains(keyword, col_lower)

field_matches(f, col_lower) ==
    \E k \in 1..Len(COLUMN_MAPPINGS[f].keywords) :
        keyword_matches(COLUMN_MAPPINGS[f].keywords[k], col_lower)

\* the loops of detect_columns over the fields and their keywords, with their breaks
match_by_name_last_field(col_lower) ==
    IF \E f \in 1..Len(COLUMN_MAPPINGS) : field_matches(f, col_lower)
    THEN LET f == CHOOSE g \in 1..Len(COLUMN_MAPPINGS) :
                     /\ field_matches(g, col_lower)
                     /\ \A h \in (g + 1)..Len(COLUMN_MAPPINGS) : ~field_matches(h, col_lower)
             kws == COLUMN_MAPPINGS[f].keywords
             k == CHOOSE j \in 1..Len(kws) :
                     /\ keyword_matches(kws[j], col_lower)
                     /\ \A i \in 1..(j - 1) : ~keyword_matches(kws[i], col_lower)
         IN [mapped_to |-> COLUMN_MAPPINGS[f].field,
             confidence |-> IF col_lower = kws[k] THEN 95 ELSE 80]
    ELSE [mapped_to |-> None, confidence |-> 0]

match_by_name(col_lower) ==
    IF \E f \in 1..Len(COLUMN_MAPPINGS) : field_matches(f, col_lower)
    THEN LET f == CHOOSE g \in 1..Len(COLUMN_MAPPINGS) :
                     /\ field_matches(g, col_lower)
                     /\ \A h \in 1..(g - 1) : ~field_matches(h, col_lower)
             kws == COLUMN_MAPPINGS[f].keywords
             k == CHOOSE j \in 1..Len(kws) :
                     /\ keyword_matches(kws[j], col_lower)
                     /\ \A i \in 1..(j - 1) : ~keyword_matches(kws[i], col_lower)
         IN [mapped_to |-> COLUMN_MAPPINGS[f].field,
             confidence |-> IF col_lower = kws[k] THEN 95 ELSE 80]
    ELSE [mapped_to |-> None, confidence |-> 0]

\* re.match(r"[a-zA-Z0-9._%+-]+@[a-zA-Z0-9.-]+\.[a-zA-Z]{2,}", s): a prefix of s matches
content_email_pattern(s) ==
    \E at \in 2..Len(s), dot \in 3..Len(s) :
        /\ at + 1 < dot
        /\ s[at] = "@"
        /\ s[dot] = "."
        /\ \A i \in 1..(at - 1) :
              IsAlpha(s[i]) \/ IsDigit(s[i]) \/ s[i] \in {".", "_", "%", "+", "-"}
        /\ \A i \in (at + 1)..(dot - 1) :
              IsAlpha(s[i]) \/ IsDigit(s[i]) \/ s[i] \in {".", "-"}
        /\ dot + 2 <= Len(s)
        /\ IsAlpha(s[dot + 1]) /\ IsAlpha(s[dot + 2])

all_chars(s, from, Test(_)) == \A i \in from..Len(s) : Test(s[i])

\* the three phone_patterns, tried on s.strip()
content_phone_pattern(s0) ==
    LET s == str_strip(s0)
        digit_sep(c) == IsDigit(c) \/ IsSpace(c) \/ c = "-"
        general(c) == IsDigit(c) \/ IsSpace(c) \/ c \in {"-", "+", "(", ")"}
        t == IF str_startswith(s, <<"+">>) THEN Tail(s) ELSE s
    IN \/ str_startswith(t, <<"6", "0">>) /\ Len(t) >= 3 /\ all_chars(t, 3, digit_sep)
       \/ Len(s) >= 3 /\ s[1] = "0" /\ IsDigit(s[2]) /\ all_chars(s, 3, digit_sep)
       \/ Len(s) >= 8 /\ all_chars(s, 1, general)

content_name_pattern(s) ==
    LET name_char(c) == IsAlpha(c) \/ IsSpace(c) \/ c \in {".", "'", "-"}
    IN /\ 2 <= Len(str_split(s)) /\ Len(str_split(s)) <= 5
       /\ Len(s) >= 1 /\ all_chars(s, 1, name_char)

count_matching(values, Test(_)) == Len(SelectSeq(values, Test))

detect_by_content_above_60(mapping, sample_values) ==
    LET sample_strings == SelectSeq(sample_values, notna)
        n == Len(sample_strings)
    IN IF n = 0 THEN mapping
       ELSE IF 10 * count_matching(sample_strings, content_email_pattern) > 6 * n
            THEN [mapping EXCEPT !.mapped_to = F_email, !.confidence = 90]
       ELSE IF 10 * count_matching(sample_strings, content_phone_pattern) > 6 * n
            THEN [mapping EXCEPT !.mapped_to = F_phone, !.confidence = 85]
       ELSE IF 10 * count_matching(sample_strings, content_name_pattern) > 6 * n
            THEN [mapping EXCEPT !.mapped_to = F_name, !.confidence = 70]
       ELSE mapping

detect_by_content(mapping, sample_values) ==
    LET sample_strings == SelectSeq(sample_values, notna)
        n == Len(sample_strings)
    IN IF n = 0 THEN mapping
       ELSE IF 10 * count_matching(sample_strings, content_email_pattern) >= 6 * n
            THEN [mapping EXCEPT !.mapped_to = F_email, !.confidence = 90]
       ELSE IF 10 * count_matching(sample_strings, content_phone_pattern) >= 6 * n
            THEN [mapping EXCEPT !.mapped_to = F_phone, !.confidence = 85]
       ELSE IF 10 * count_matching(sample_strings, content_name_pattern) >= 6 * n
            THEN [mapping EXCEPT !.mapped_to = F_name, !.confidence = 70]
       ELSE mapping

detect_column(d, col) ==
    LET col_lower == str_strip(str_lower(col))
        sample_values == Slice(dropna(column_values(d, col)), 0, 5)
        by_name == match_by_name(col_lower)
        mapping == [original_name |-> col, mapped_to |-> by_name.mapped_to,
                    confidence |-> by_name.confidence, sample_values |-> sample_values]
    IN IF mapping.mapped_to = None /\ sample_values # <<>>
       THEN detect_by_content(mapping, sample_values)
       ELSE mapping

detect_columns_mapped_only(d) ==
    SelectSeq([i \in 1..Len(d.columns) |-> detect_column(d, d.columns[i])],
              LAMBDA mapping : mapping.mapped_to # None)

detect_columns(d) == [i \in 1..Len(d.columns) |-> detect_column(d, d.columns[i])]

----------------------------------------------------------------------------
(* Detection harness: a DataFrame of SheetRows rows is built column by     *)
(* column, then detect_columns is applied to it.                           *)

MaxCols == 2
SheetRows == 5

HeaderInputs ==
    {<<"P", "h", "o", "n", "e", " ", "N", "u", "m", "b", "e", "r">>, <<"p", "h", "o", "n", "e">>, <<"N", "a", "m", "e">>, <<" ", "E", "m", "a", "i", "l", " ">>, <<"C", "o", "m", "p", "a", "n", "y", " ", "N", "a", "m", "e">>,
     <<"C", "o", "n", "t", "a", "c", "t", " ", "N", "o">>, <<"b", "u", "s", "i", "n", "e", "s", "s", " ", "t", "y", "p", "e">>, <<"T", "e", "l">>, <<"e">>, <<"x", "y", "z">>}

ColumnKinds ==
    {"emails", "phones", "names", "mixed", "blank", "email_minority", "phone_minority",
     "name_minority", "sparse", "single"}

\* the cell of row i (1-based) in a column of the given kind
SampleCell(kind, i) ==
    CASE kind = "emails" -> IF i % 2 = 1 THEN <<"a", "l", "i", "@", "x", ".", "m", "y">> ELSE <<"B", "o", "b", "@", "Y", ".", "c", "o", "m">>
      [] kind = "phones" -> IF i % 2 = 1 THEN <<"0", "1", "2", "-", "3", "4", "5", " ", "6", "7", "8", "9">> ELSE <<"+", "6", "0", "1", "2", "-", "3", "4", "5", "6", "7", "8", "9">>
      [] kind = "names" -> IF i % 2 = 1 THEN <<"A", "l", "i", " ", "B", "i", "n", " ", "A", "b", "u">> ELSE <<"d", "a", "t", "o", "'", " ", "A", "H", "M", "A", "D">>
      [] kind = "mixed" -> IF i <= 3 THEN <<"a", "l", "i", "@", "x", ".", "m", "y">> ELSE <<"n", "/", "a">>
      [] kind = "email_minority" -> IF i <= 2 THEN <<"a", "l", "i", "@", "x", ".", "m", "y">> ELSE <<"0", "1", "2", "-", "3", "4", "5", " ", "6", "7", "8", "9">>
      [] kind = "phone_minority" -> IF i <= 2 THEN <<"+", "6", "0", "1", "2", "-", "3", "4", "5", "6", "7", "8", "9">> ELSE <<"A", "l", "i", " ", "B", "i", "n", " ", "A", "b", "u">>
      [] kind = "name_minority" -> IF i <= 2 THEN <<"A", "l", "i", " ", "B", "i", "n", " ", "A", "b", "u">> ELSE <<"n", "/", "a">>
      [] kind = "sparse" -> IF i = 1 THEN <<"a", "l", "i", "@", "x", ".", "m", "y">> ELSE IF i = 3 THEN <<"0", "1", "2", "-", "3", "4", "5", " ", "6", "7", "8", "9">> ELSE None
      [] kind = "single" -> IF i = 2 THEN <<"B", "o", "b", "@", "Y", ".", "c", "o", "m">> ELSE None
      [] OTHER -> None

\* a header that matches a keyword is tried over one kind of content, a header
\* that matches none over every kind
ColumnInputs ==
    {[header |-> h, kind |-> k] : h \in HeaderInputs, k \in ColumnKinds} \
    {c \in {[header |-> h, kind |-> k] : h \in HeaderInputs, k \in ColumnKinds} :
        match_by_name(str_strip(str_lower(c.header))).mapped_to # None /\ c.kind # "mixed"}

DetectIdle ==
    /\ sheet = DataFrame(<<>>, [i \in 1..SheetRows |-> <<>>])
    /\ detect_out = <<>>

DetectAddColumn ==
    /\ detect_out = <<>>
    /\ Len(sheet.columns) < MaxCols
    /\ \E c \in ColumnInputs :
          /\ ~has_column(sheet, c.header)
          /\ sheet' = set_column(sheet, c.header, [i \in 1..SheetRows |-> SampleCell(c.kind, i)])
    /\ UNCHANGED detect_out
    /\ UNCHANGED <<pipelineVars, phoneVars, nameVars, dedupVars, mergeVars, concurrentVars>>

DetectColumns ==
    /\ detect_out = <<>>
    /\ Len(sheet.columns) >= 1
    /\ detect_out' = detect_columns(sheet)
    /\ UNCHANGED sheet
    /\ UNCHANGED <<pipelineVars, phoneVars, nameVars, dedupVars, mergeVars, concurrentVars>>

----------------------------------------------------------------------------
(* SpreadsheetService.deduplicate.  A column mapping (a Python dict) is a  *)
(* sequence of [orig, std] pairs in insertion order.                       *)

\* {std: orig for orig, std in column_mappings.items() if std}: has a key / its value
truthy(v) == v # None /\ v # <<>>
std_mapped(mappings, std) ==
    truthy(std) /\ \E i \in 1..Len(mappings) : mappings[i].std = std
std_column(mappings, std) ==
    mappings[CHOOSE i \in 1..Len(mappings) :
                /\ mappings[i].std = std
                /\ \A j \in (i + 1)..Len(mappings) : mappings[j].std # std].orig

\* the characters of the model in code-point order, for sorted group keys
CodePoints ==
    <<" ", "%", "'", "(", ")", "+", "-", ".", "/", "0", "1", "2", "3", "4", "5", "6", "7", "8", "9", "@", "A", "B", "C", "D", "E", "F", "G", "H", "I", "J", "K", "L", "M", "N", "O", "P", "Q", "R", "S", "T", "U", "V", "W", "X", "Y", "Z", "_", "a", "b", "c", "d", "e", "f", "g", "h", "i", "j", "k", "l", "m", "n", "o", "p", "q", "r", "s", "t", "u", "v", "w", "x", "y", "z">>
code_point(c) == CHOOSE i \in 1..Len(CodePoints) : CodePoints[i] = c

RECURSIVE str_less(_, _)
str_less(a, b) ==
    IF b = <<>> THEN FALSE
    ELSE IF a = <<>> THEN TRUE
    ELSE IF Head(a) = Head(b) THEN str_less(Tail(a), Tail(b))
    ELSE code_point(Head(a)) < code_point(Head(b))

\* a finite set of strings as the sorted list that groupby iterates over
RECURSIVE sorted_keys(_)
sorted_keys(S) ==
    IF S = {} THEN <<>>
    ELSE LET least == CHOOSE x \in S : \A y \in S \ {x} : str_less(x, y)
         IN <<least>> \o sorted_keys(S \ {least})

\* the positions 1..n that satisfy Test, ascending
positions_where(n, Test(_)) == SelectSeq([i \in 1..n |-> i], Test)

\* the duplicate groups that the loop appends for one dedup column
groups_of(d, col, key_name) ==
    LET keys == column_values(d, col)
        n == Len(keys)
        duplicated(i) == \E j \in 1..n : j # i /\ keys[j] = keys[i]
        dup_keys == {keys[i] : i \in {j \in 1..n : duplicated(j) /\ keys[j] # <<>>}}
        ordered == sorted_keys(dup_keys)
        group(v) ==
            LET has_key(i) == keys[i] = v
                members == positions_where(n, has_key)
            IN [key |-> key_name, value |-> v, count |-> Len(members),
                row_numbers |-> [k \in 1..Len(members) |-> d.index[members[k]] + 2]]
    IN [g \in 1..Len(ordered) |-> group(ordered[g])]

\* df.drop_duplicates(subset=cols, keep="first"): positions of the rows kept
kept_positions(d, cols) ==
    LET key(i) == [c \in 1..Len(cols) |-> d.rows[i][column_pos(d, cols[c])]]
        first(i) == \A j \in 1..(i - 1) : key(j) # key(i)
    IN positions_where(Len(d.rows), first)

\* df with the named columns dropped
drop_columns(d, cols) ==
    LET keep(i) == \A c \in 1..Len(cols) : cols[c] # d.columns[i]
        kept == positions_where(Len(d.columns), keep)
    IN [d EXCEPT !.columns = [k \in 1..Len(kept) |-> d.columns[kept[k]]],
                 !.rows = [r \in 1..Len(d.rows) |->
                              [k \in 1..Len(kept) |-> d.rows[r][kept[k]]]]]

COL_phone_normalized == <<"_", "p", "h", "o", "n", "e", "_", "n", "o", "r", "m", "a", "l", "i", "z", "e", "d">>
COL_email_normalized == <<"_", "e", "m", "a", "i", "l", "_", "n", "o", "r", "m", "a", "l", "i", "z", "e", "d">>
COL_name_normalized == <<"_", "n", "a", "m", "e", "_", "n", "o", "r", "m", "a", "l", "i", "z", "e", "d">>

dedup_result(d, count, groups) ==
    [done |-> TRUE, raised |-> FALSE, df |-> d, duplicate_count |-> count,
     duplicate_groups |-> groups]
KeyError == [done |-> TRUE, raised |-> TRUE]

deduplicate(d, mappings) ==
    LET use_phone == std_mapped(mappings, F_phone)
        use_email == std_mapped(mappings, F_email)
        use_name == std_mapped(mappings, F_name) /\ ~use_phone /\ ~use_email
        phone_key(x) == IF notna(x) THEN normalize_phone_for_comparison(x) ELSE <<>>
        text_key(x) == IF notna(x) THEN str_strip(str_lower(x)) ELSE <<>>
        keyed(frame, use, std, col, Key(_)) ==
            IF use
            THEN set_column(frame, col,
                    LET values == column_values(frame, std_column(mappings, std))
                    IN [r \in 1..Len(values) |-> Key(values[r])])
            ELSE frame
        d1 == keyed(d, use_phone, F_phone, COL_phone_normalized, phone_key)
        d2 == keyed(d1, use_email, F_email, COL_email_normalized, text_key)
        d3 == keyed(d2, use_name, F_name, COL_name_normalized, text_key)
        dedup_columns ==
            (IF use_phone THEN <<COL_phone_normalized>> ELSE <<>>)
              \o (IF use_email THEN <<COL_email_normalized>> ELSE <<>>)
              \o (IF use_name THEN <<COL_name_normalized>> ELSE <<>>)
        duplicate_groups ==
            (IF use_phone THEN groups_of(d3, COL_phone_normalized, F_phone) ELSE <<>>)
              \o (IF use_email THEN groups_of(d3, COL_email_normalized, F_email) ELSE <<>>)
              \o (IF use_name THEN groups_of(d3, COL_name_normalized, F_name) ELSE <<>>)
        deduped_df ==
            drop_columns(take_rows(d3, kept_positions(d3, dedup_columns)),
                         <<COL_phone_normalized, COL_email_normalized, COL_name_normalized>>)
    IN IF df_empty(d) THEN dedup_result(d, 0, <<>>)
       ELSE IF \/ use_phone /\ ~has_column(d, std_column(mappings, F_phone))
               \/ use_email /\ ~has_column(d, std_column(mappings, F_email))
               \/ use_name /\ ~has_column(d, std_column(mappings, F_name))
            THEN KeyError
       ELSE IF dedup_columns = <<>> THEN dedup_result(d, 0, <<>>)
       ELSE dedup_result(deduped_df, df_len(d) - df_len(deduped_df),
                         Slice(duplicate_groups, 0, 50))

----------------------------------------------------------------------------
(* SpreadsheetService.validate_data.  quality_score is kept in tenths      *)
(* (999 = 99.9); round(x, 1) rounds a tie to the even tenth.               *)

round_half_even(num, den) ==
    LET q == num \div den
        r == num % den
    IN IF 2 * r < den THEN q
       ELSE IF 2 * r > den THEN q + 1
       ELSE IF q % 2 = 0 THEN q ELSE q + 1

issue_one_based(idx, column, issue_type, description) ==
    [row_number |-> idx + 1, column |-> column, issue_type |-> issue_type,
     description |-> description]

issue(idx, column, issue_type, description) ==
    [row_number |-> idx + 2, column |-> column, issue_type |-> issue_type,
     description |-> description]

\* the issues appended for one column: one for every row whose cell is Bad
column_issues(d, column, Bad(_), issue_type, Description(_)) ==
    Local(column_values(d, column), LAMBDA cells :
    Local(SelectSeq([i \in 1..Len(cells) |-> i], LAMBDA i : Bad(cells[i])), LAMBDA rows :
        [k \in 1..Len(rows) |->
            issue(d.index[rows[k]], column, issue_type, Description(cells[rows[k]]))]))

count_missing(d, column) ==
    Len(SelectSeq(column_values(d, column), LAMBDA x : ~notna(x)))

\* round(max(0, 100 - (issue_count / max(1, total_fields) * 100)), 1), in tenths
quality_score(issue_count, total_fields) ==
    Max(0, round_half_even(1000 * Max(1, total_fields) - 1000 * issue_count,
                           Max(1, total_fields)))

validate_data(d, mappings) ==
    LET use_name == std_mapped(mappings, F_name)
        use_phone == std_mapped(mappings, F_phone)
        use_email == std_mapped(mappings, F_email)
        invalid_phone(x) == notna(x) /\ ~validate_malaysian_phone(x)[1]
        invalid_email(x) == notna(x) /\ ~clean_email_pattern(str_strip(x))
        missing(x) == ~notna(x)
        missing_text(x) == <<"Missing contact name">>
        phone_text(x) == <<"Invalid phone: ", validate_malaysian_phone(x)[2]>>
        email_text(x) == <<"Invalid email format">>
    IN IF \/ use_name /\ ~has_column(d, std_column(mappings, F_name))
          \/ use_phone /\ ~has_column(d, std_column(mappings, F_phone))
          \/ use_email /\ ~has_column(d, std_column(mappings, F_email))
       THEN KeyError
       ELSE
       Local(IF use_name
             THEN column_issues(d, std_column(mappings, F_name), missing, "missing", missing_text)
             ELSE <<>>, LAMBDA name_issues :
       Local(IF use_phone
             THEN column_issues(d, std_column(mappings, F_phone), invalid_phone, "invalid",
                                phone_text)
             ELSE <<>>, LAMBDA phone_issues :
       Local(IF use_email
             THEN column_issues(d, std_column(mappings, F_email), invalid_email, "invalid",
                                email_text)
             ELSE <<>>, LAMBDA email_issues :
       Local(name_issues \o phone_issues \o email_issues, LAMBDA issues :
           [done |-> TRUE, raised |-> FALSE,
            total_rows |-> df_len(d),
            valid_rows |-> df_len(d) - Len(name_issues),
            issues_count |-> Len(issues),
            issues |-> Slice(issues, 0, 100),
            duplicate_count |-> 0,
            missing_phone_count |->
                IF use_phone THEN count_missing(d, std_column(mappings, F_phone)) ELSE 0,
            missing_name_count |-> Len(name_issues),
            invalid_phone_count |-> Len(phone_issues),
            invalid_email_count |-> Len(email_issues),
            quality_score |-> quality_score(Len(issues), df_len(d) * Len(mappings))]))))

----------------------------------------------------------------------------
(* Dedup harness: a DataFrame with the columns Name, Contact No, Email is  *)
(* built row by row, then deduplicate is applied to it with a mapping of   *)
(* some of its columns.                                                    *)

MaxRows == 3

H_Name == <<"N", "a", "m", "e">>
H_ContactNo == <<"C", "o", "n", "t", "a", "c", "t", " ", "N", "o">>
H_Email == <<"E", "m", "a", "i", "l">>

PhoneLocal == <<"0", "1", "2", "-", "3", "4", "5", " ", "6", "7", "8", "9">>
PhoneIntl == <<"+", "6", "0", "1", "2", "-", "3", "4", "5", "6", "7", "8", "9">>
PhoneOther == <<"0", "1", "9", "-", "9", "9", "9", " ", "0", "0", "0", "0">>

\* a contact as typed in a sheet: two spellings of one person, another person, and a bare row
PersonCells ==
    {<<<<"A", "l", "i", " ", "b", "i", "n", " ", "A", "b", "u">>, PhoneLocal>>, <<<<"a", "l", "i", " ", "B", "I", "N", " ", "a", "b", "u", " ">>, PhoneIntl>>,
     <<<<"S", "i", "t", "i">>, PhoneOther>>, <<None, None>>}
EmailCells == {None, <<"a", "l", "i", "@", "x", ".", "m", "y">>, <<" ", "A", "l", "i", "@", "X", ".", "m", "y">>, <<"s", "i", "t", "i", "@", "y", ".", "c", "o", "m">>}

DedupRows == {<<p[1], p[2], e>> : p \in PersonCells, e \in EmailCells}

M(orig, std) == [orig |-> orig, std |-> std]
DedupMappings ==
    {<<M(H_ContactNo, F_phone)>>,
     <<M(H_Name, F_name), M(H_ContactNo, F_phone)>>,
     <<M(H_Name, F_name), M(H_ContactNo, F_phone), M(H_Email, F_email)>>,
     <<M(H_Name, F_name), M(H_Email, F_email)>>,
     <<M(H_Name, F_name)>>,
     <<M(H_Email, None)>>}

DedupUnset == [done |-> FALSE]

DedupIdle ==
    /\ df = DataFrame(<<H_Name, H_ContactNo, H_Email>>, <<>>)
    /\ column_mappings = <<>>
    /\ dedup_out = DedupUnset
    /\ quality_out = DedupUnset

DedupAddRow ==
    /\ dedup_out = DedupUnset
    /\ df_len(df) < MaxRows
    /\ \E row \in DedupRows : df' = DataFrame(df.columns, Append(df.rows, row))
    /\ UNCHANGED <<column_mappings, dedup_out, quality_out>>
    /\ UNCHANGED <<pipelineVars, phoneVars, nameVars, detectVars, mergeVars, concurrentVars>>

Deduplicate ==
    /\ dedup_out = DedupUnset
    /\ \E m \in DedupMappings :
          /\ column_mappings \in {<<>>, m}
          /\ column_mappings' = m
          /\ dedup_out' = deduplicate(df, m)
    /\ UNCHANGED <<df, quality_out>>
    /\ UNCHANGED <<pipelineVars, phoneVars, nameVars, detectVars, mergeVars, concurrentVars>>

----------------------------------------------------------------------------
(* Quality harness: the same DataFrame is built from rows with missing and *)
(* malformed cells, optionally extended to a large sheet by PadRows        *)
(* well-formed rows, then validate_data and deduplicate are applied to it. *)

PadRows == 700

\* mappings of a sheet whose headers are the standard field names
CanonMappings ==
    {<<M(F_name, F_name), M(F_phone, F_phone), M(F_email, F_email)>>,
     <<M(F_name, F_name), M(F_phone, F_phone)>>,
     <<M(F_name, F_name), M(F_email, F_email)>>,
     <<M(F_name, F_name)>>}

PhoneBad == <<"1", "2", "3">>
EmailBad == <<"n", "o", "t", "-", "a", "n", "-", "e", "m", "a", "i", "l">>

QualityRows ==
    {<<<<"A", "l", "i", " ", "b", "i", "n", " ", "A", "b", "u">>, PhoneLocal, <<"a", "l", "i", "@", "x", ".", "m", "y">>>>,
     <<None, PhoneIntl, <<" ", "A", "l", "i", "@", "X", ".", "m", "y">>>>,
     <<<<"S", "i", "t", "i">>, PhoneBad, EmailBad>>,
     <<None, None, None>>,
     <<<<"S", "i", "t", "i">>, PhoneOther, None>>}

PadRow == <<<<"T", "a", "n", " ", "M", "e", "i", " ", "L", "i", "n", "g">>, <<"0", "1", "6", "-", "2", "2", "2", " ", "3", "3", "3", "3">>, <<"t", "a", "n", "@", "z", ".", "m", "y">>>>

QualityAddRow ==
    /\ dedup_out = DedupUnset
    /\ quality_out = DedupUnset
    /\ df_len(df) < MaxRows
    /\ \E row \in QualityRows : df' = DataFrame(df.columns, Append(df.rows, row))
    /\ UNCHANGED <<column_mappings, dedup_out, quality_out>>
    /\ UNCHANGED <<pipelineVars, phoneVars, nameVars, detectVars, mergeVars, concurrentVars>>

\* the header row of the sheet: the standard field names instead
QualityHeaders ==
    /\ dedup_out = DedupUnset
    /\ quality_out = DedupUnset
    /\ df = DataFrame(<<H_Name, H_ContactNo, H_Email>>, <<>>)
    /\ df' = DataFrame(<<F_name, F_phone, F_email>>, <<>>)
    /\ UNCHANGED <<column_mappings, dedup_out, quality_out>>
    /\ UNCHANGED <<pipelineVars, phoneVars, nameVars, detectVars, mergeVars, concurrentVars>>

QualityPad ==
    /\ dedup_out = DedupUnset
    /\ quality_out = DedupUnset
    /\ df_len(df) = 1
    /\ df' = DataFrame(df.columns, df.rows \o [i \in 1..PadRows |-> PadRow])
    /\ UNCHANGED <<column_mappings, dedup_out, quality_out>>
    /\ UNCHANGED <<pipelineVars, phoneVars, nameVars, detectVars, mergeVars, concurrentVars>>

ValidateData ==
    /\ quality_out = DedupUnset
    /\ \E m \in DedupMappings \cup CanonMappings :
          /\ column_mappings \in {<<>>, m}
          /\ column_mappings' = m
          /\ quality_out' = validate_data(df, m)
    /\ UNCHANGED <<df, dedup_out>>
    /\ UNCHANGED <<pipelineVars, phoneVars, nameVars, detectVars, mergeVars, concurrentVars>>

----------------------------------------------------------------------------
(* SpreadsheetService: read_spreadsheet, clean_data, to_contact_list.      *)
(* Uploaded bytes are a record: their length, whether pandas parses them,  *)
(* and the table that parsing yields.                                      *)

Bytes(size, readable, columns, rows) ==
    [size |-> size, readable |-> readable, columns |-> columns, rows |-> rows]

\* filename.lower().split(".")[-1]
file_ext(filename) ==
    LET s == str_lower(filename)
        dots == {i \in 1..Len(s) : s[i] = "."}
    IN IF dots = {} THEN s
       ELSE SliceFrom(s, CHOOSE i \in dots : \A j \in dots : j <= i)

ReadError == "pandas could not parse the file"

read_spreadsheet(file_content, filename) ==
    LET file_ext_ == file_ext(filename)
        parsed == [df |-> DataFrame(file_content.columns, file_content.rows), error |-> ""]
        failed(msg) == [df |-> DataFrame(<<>>, <<>>), error |-> msg]
    IN IF file_ext_ \in {<<"c", "s", "v">>, <<"x", "l", "s", "x">>, <<"x", "l", "s">>}
       THEN IF file_content.readable THEN parsed ELSE failed(ReadError)
       ELSE failed("Unsupported file format")

\* df.rename(columns={orig: std for orig, std in column_mappings.items() if std})
rename_columns(d, mappings) ==
    LET renamed(c) == \E i \in 1..Len(mappings) : mappings[i].orig = c /\ truthy(mappings[i].std)
        new_name(c) ==
            mappings[CHOOSE i \in 1..Len(mappings) :
                        /\ mappings[i].orig = c /\ truthy(mappings[i].std)
                        /\ \A j \in (i + 1)..Len(mappings) : mappings[j].orig # c].std
    IN [d EXCEPT !.columns = [i \in 1..Len(d.columns) |->
                                 IF renamed(d.columns[i]) THEN new_name(d.columns[i])
                                 ELSE d.columns[i]]]

\* df[c] = df[c].apply(F) when c is a column
apply_column(d, c, F(_)) ==
    IF has_column(d, c)
    THEN set_column(d, c, LET values == column_values(d, c)
                          IN [r \in 1..Len(values) |-> F(values[r])])
    ELSE d

strip_cell(x) == IF notna(x) THEN str_strip(x) ELSE None

clean_data(d, mappings, clean_phones) ==
    Local(rename_columns(d, mappings), LAMBDA renamed :
    Local(IF clean_phones THEN apply_column(renamed, F_phone, clean_phone) ELSE renamed,
          LAMBDA phones :
    Local(apply_column(phones, F_email, clean_email), LAMBDA emails :
    Local(apply_column(emails, F_name, clean_name), LAMBDA names :
        [names EXCEPT !.rows = [r \in 1..Len(names.rows) |->
                                   [c \in 1..Len(names.columns) |->
                                       strip_cell(names.rows[r][c])]]]))))

\* the keys of {std: orig for orig, std in column_mappings.items() if std}
std_fields(mappings) == {mappings[i].std : i \in {j \in 1..Len(mappings) : truthy(mappings[j].std)}}

\* dict.get: None for a missing key
dict_get(dict, key) == IF key \in DOMAIN dict THEN dict[key] ELSE None
dict_set(dict, key, value) ==
    [k \in DOMAIN dict \cup {key} |-> IF k = key THEN value ELSE dict[k]]

\* the contact built from one row: row.get(orig_col) is None when orig_col is no column
row_contact(d, r, mappings) ==
    [std \in std_fields(mappings) |->
        LET orig_col == std_column(mappings, std)
        IN IF has_column(d, orig_col) /\ notna(d.rows[r][column_pos(d, orig_col)])
           THEN d.rows[r][column_pos(d, orig_col)]
           ELSE None]

to_contact_list(d, mappings) ==
    LET has_name_or_phone(r) ==
            \/ truthy(dict_get(row_contact(d, r, mappings), F_name))
            \/ truthy(dict_get(row_contact(d, r, mappings), F_phone))
        kept == positions_where(Len(d.rows), has_name_or_phone)
    IN [k \in 1..Len(kept) |-> row_contact(d, kept[k], mappings)]

----------------------------------------------------------------------------
(* services/claude_service.py as an external collaborator: each call takes *)
(* one of the outcomes the caller distinguishes.                           *)

AIReplies == {"raise", "parse_error", "categorized"}

F_company == <<"c", "o", "m", "p", "a", "n", "y">>
F_industry == <<"i", "n", "d", "u", "s", "t", "r", "y">>
K_category == <<"c", "a", "t", "e", "g", "o", "r", "y">>
K_priority == <<"p", "r", "i", "o", "r", "i", "t", "y">>

\* the auto_categorize loop of process_spreadsheet from contact i on; ai[i] is the
\* outcome of categorize_contact for contact i
RECURSIVE categorize_from(_, _, _)
categorize_from(contacts, ai, i) ==
    IF i > Min(Len(contacts), 100) THEN contacts
    ELSE IF truthy(dict_get(contacts[i], F_company)) \/ truthy(dict_get(contacts[i], F_name))
         THEN IF ai[i] = "raise" THEN contacts
              ELSE IF ai[i] = "parse_error" THEN categorize_from(contacts, ai, i + 1)
              ELSE categorize_from(
                      [contacts EXCEPT ![i] =
                          dict_set(dict_set(dict_set(@, F_industry, <<"t", "e", "c", "h", "n", "o", "l", "o", "g", "y">>),
                                            K_category, <<"c", "l", "i", "e", "n", "t">>),
                                   K_priority, <<"h", "i", "g", "h">>)],
                      ai, i + 1)
         ELSE categorize_from(contacts, ai, i + 1)

----------------------------------------------------------------------------
(* The clean and deduplicate steps of process_spreadsheet, applied to the  *)
(* DataFrame of the quality harness.                                       *)

CleanAndDeduplicate ==
    /\ dedup_out = DedupUnset
    /\ \E m \in DedupMappings \cup CanonMappings, clean_phones \in BOOLEAN :
          /\ column_mappings \in {<<>>, m}
          /\ column_mappings' = m
          /\ \E cleaned \in {clean_data(df, m, clean_phones)} :
                dedup_out' = deduplicate(cleaned, m)
    /\ UNCHANGED <<df, quality_out>>
    /\ UNCHANGED <<pipelineVars, phoneVars, nameVars, detectVars, mergeVars, concurrentVars>>

----------------------------------------------------------------------------
(* routers/spreadsheet.py: the analyze and process handlers *)

NoData ==
    [column_mappings |-> <<>>, quality_report |-> <<>>, ai_insights |-> "", summary |-> <<>>,
     contacts |-> <<>>, duplicate_groups |-> <<>>]

http_error(op, filename, status, detail) ==
    [op |-> op, filename |-> filename, success |-> FALSE, status |-> status,
     detail |-> detail, data |-> NoData]

\* {m["original_name"]: m["mapped_to"] for m in column_mappings}
mapping_dict(detected) ==
    [i \in 1..Len(detected) |-> M(detected[i].original_name, detected[i].mapped_to)]

\* the DataQualityReport built from the dict validate_data returns
quality_report(report) ==
    [total_rows |-> report.total_rows, valid_rows |-> report.valid_rows,
     issues_count |-> report.issues_count, issues |-> Slice(report.issues, 0, 50),
     duplicate_count |-> report.duplicate_count,
     missing_phone_count |-> report.missing_phone_count,
     missing_name_count |-> report.missing_name_count,
     quality_score |-> report.quality_score]

\* what analyze_spreadsheet does to the store and returns: [store, response]
analyze_spreadsheet(store, filename, file_content, ai) ==
    LET stored == dict_set(store, filename, file_content)
        read == read_spreadsheet(file_content, filename)
        rejected(st, detail) ==
            [store |-> st, response |-> http_error("analyze", filename, 400, detail)]
    IN IF filename = <<>> THEN rejected(store, "No filename provided")
       ELSE IF file_ext(filename) \notin {<<"c", "s", "v">>, <<"x", "l", "s", "x">>, <<"x", "l", "s">>}
            THEN rejected(store, "Unsupported file type")
       ELSE IF file_content.size = 0 THEN rejected(store, "Empty file uploaded")
       ELSE IF read.error # "" THEN rejected(stored, "Error reading file")
       ELSE IF df_empty(read.df) THEN rejected(stored, "Spreadsheet is empty")
       ELSE
       Local(detect_columns(read.df), LAMBDA detected :
       Local(validate_data(read.df, mapping_dict(detected)), LAMBDA report :
       IF report.raised
       THEN [store |-> stored, response |-> http_error("analyze", filename, 500, "KeyError")]
       ELSE [store |-> stored,
             response |->
                [op |-> "analyze", filename |-> filename, success |-> TRUE, status |-> 200,
                 detail |-> "",
                 data |-> [NoData EXCEPT
                             !.column_mappings = detected,
                             !.quality_report = <<quality_report(report)>>,
                             !.ai_insights = IF ai = "raise" THEN "error" ELSE "insights"]]]))

\* process_spreadsheet up to the contact list: the HTTP error it raises, or the
\* DataFrame read, the dedup result and the contacts
process_contacts(store, filename, mappings_json, clean_phones, remove_duplicates) ==
    LET mappings == mappings_json.value
        raised(status, detail) ==
            [status |-> status, detail |-> detail, total |-> 0, duplicates_removed |-> 0,
             duplicate_groups |-> <<>>, contacts |-> <<>>]
    IN IF ~mappings_json.valid THEN raised(400, "Invalid column_mappings JSON")
       ELSE IF filename \notin DOMAIN store
            THEN raised(400, "File not found. Please upload and analyze first.")
       ELSE
       Local(read_spreadsheet(store[filename], filename), LAMBDA read :
       IF read.error # "" THEN raised(400, "Error reading file")
       ELSE
       Local(clean_data(read.df, mappings, clean_phones), LAMBDA cleaned_df :
       Local(IF remove_duplicates THEN deduplicate(cleaned_df, mappings)
             ELSE dedup_result(cleaned_df, 0, <<>>), LAMBDA dedup :
       IF dedup.raised THEN raised(500, "KeyError")
       ELSE [status |-> 200, detail |-> "", total |-> df_len(read.df),
             duplicates_removed |-> dedup.duplicate_count,
             duplicate_groups |-> dedup.duplicate_groups,
             contacts |-> to_contact_list(dedup.df, mappings)])))

\* the handler with the entry deleted as soon as it has been looked up
process_spreadsheet_delete_first(store, filename, p, auto_categorize, ai) ==
    LET contacts == IF auto_categorize THEN categorize_from(p.contacts, ai, 1) ELSE p.contacts
        deleted == [f \in DOMAIN store \ {filename} |-> store[f]]
    IN IF p.status # 200
       THEN [store |-> deleted, response |-> http_error("process", filename, p.status, p.detail)]
       ELSE [store |-> deleted,
             response |->
                [op |-> "process", filename |-> filename, success |-> TRUE, status |-> 200,
                 detail |-> "",
                 data |-> [NoData EXCEPT
                             !.summary = <<[total_processed |-> p.total,
                                            successful |-> Len(contacts),
                                            failed |-> p.total - Len(contacts),
                                            duplicates_removed |-> p.duplicates_removed]>>,
                             !.contacts = contacts,
                             !.duplicate_groups = p.duplicate_groups]]]

\* the handler without the try/except around the categorization loop
process_spreadsheet_propagating(store, filename, p, auto_categorize, ai) ==
    LET contacts == IF auto_categorize THEN categorize_from(p.contacts, ai, 1) ELSE p.contacts
    IN IF p.status # 200
       THEN [store |-> store, response |-> http_error("process", filename, p.status, p.detail)]
       ELSE IF auto_categorize /\ \E i \in DOMAIN ai : ai[i] = "raise"
       THEN [store |-> store,
             response |-> http_error("process", filename, 500, "Contact categorization error")]
       ELSE [store |-> [f \in DOMAIN store \ {filename} |-> store[f]],
             response |->
                [op |-> "process", filename |-> filename, success |-> TRUE, status |-> 200,
                 detail |-> "",
                 data |-> [NoData EXCEPT
                             !.summary = <<[total_processed |-> p.total,
                                            successful |-> Len(contacts),
                                            failed |-> p.total - Len(contacts),
                                            duplicates_removed |-> p.duplicates_removed]>>,
                             !.contacts = contacts,
                             !.duplicate_groups = p.duplicate_groups]]]

\* process_spreadsheet from the contact list on: what it does to the store and
\* returns, [store, response]; p is the outcome of process_contacts
process_spreadsheet(store, filename, p, auto_categorize, ai) ==
    LET contacts == IF auto_categorize THEN categorize_from(p.contacts, ai, 1) ELSE p.contacts
    IN IF p.status # 200
       THEN [store |-> store, response |-> http_error("process", filename, p.status, p.detail)]
       ELSE [store |-> [f \in DOMAIN store \ {filename} |-> store[f]],
             response |->
                [op |-> "process", filename |-> filename, success |-> TRUE, status |-> 200,
                 detail |-> "",
                 data |-> [NoData EXCEPT
                             !.summary = <<[total_processed |-> p.total,
                                            successful |-> Len(contacts),
                                            failed |-> p.total - Len(contacts),
                                            duplicates_removed |-> p.duplicates_removed]>>,
                             !.contacts = contacts,
                             !.duplicate_groups = p.duplicate_groups]]]

----------------------------------------------------------------------------
(* routers/namecard.py, scan_namecard: the merge of the collaborator's     *)
(* extraction into the OCR result.  contact_data and confidence_scores are *)
(* functions on the six fields (None / 0 where the dict has no entry); an  *)
(* entry of ai_result is "absent", "not_a_dict", or a record of the value  *)
(* and the confidence it carries (NoNumber for a confidence that is not a  *)
(* number, whose comparison raises).                                       *)

F_title == <<"t", "i", "t", "l", "e">>
F_address == <<"a", "d", "d", "r", "e", "s", "s">>
MergeFields == <<F_name, F_title, F_company, F_phone, F_email, F_address>>
NoNumber == -1

\* the loop over the fields from field k on; an exception ends it
RECURSIVE merge_from(_, _, _)
merge_from(result, ai_result, k) ==
    IF k > Len(MergeFields) THEN [result EXCEPT !.completed = TRUE]
    ELSE LET field == MergeFields[k]
             ai_field == ai_result.fields[field]
         IN IF ai_field.kind # "dict" THEN merge_from(result, ai_result, k + 1)
            ELSE IF ~truthy(ai_field.value) THEN merge_from(result, ai_result, k + 1)
            ELSE IF ai_field.confidence = NoNumber THEN result
            ELSE IF \/ ai_field.confidence > result.confidence_scores[field]
                    \/ ~truthy(result.contact[field])
                 THEN merge_from(
                        [result EXCEPT
                           !.contact[field] = ai_field.value,
                           !.confidence_scores[field] =
                               Max(ai_field.confidence, result.confidence_scores[field])],
                        ai_result, k + 1)
                 ELSE merge_from(result, ai_result, k + 1)

\* lines 97-121: contact, confidence scores and overall confidence after the
\* optional enhancement; ai_result.outcome is what extract_contact_info did
enhance_extraction(result, use_ai_extraction, ai_result) ==
    IF ~use_ai_extraction \/ ~truthy(result.raw_text) THEN result
    ELSE IF ai_result.outcome = "raise" THEN result
    ELSE IF ai_result.outcome = "parse_error" THEN result
    ELSE LET merged == merge_from([result EXCEPT !.completed = FALSE], ai_result, 1)
         IN IF merged.completed /\ ai_result.overall_confidence # 0
            THEN [merged EXCEPT !.overall_confidence =
                                   Max(result.overall_confidence, ai_result.overall_confidence)]
            ELSE merged

----------------------------------------------------------------------------
(* Merge harness: the enhancement of scan_namecard on an OCR result, and   *)
(* the categorization loop of process_spreadsheet on a contact list whose  *)
(* contacts may carry an industry read from the sheet.  card starts as the *)
(* heuristic result and becomes the record of one merge.                   *)

V_ocr == <<"A", "l", "i", " ", "A", "b", "u">>
V_ai == <<"A", "l", "i", " ", "b", "i", "n", " ", "A", "b", "u">>
V_finance == <<"f", "i", "n", "a", "n", "c", "e">>
MergeFieldSet == {MergeFields[k] : k \in 1..Len(MergeFields)}

\* an OCR result that read name and phone, each or neither
OcrResults ==
    {[contact |-> [f \in MergeFieldSet |->
                      IF f = F_name THEN n.value ELSE IF f = F_phone THEN ph.value ELSE None],
      confidence_scores |-> [f \in MergeFieldSet |->
                      IF f = F_name THEN n.confidence
                      ELSE IF f = F_phone THEN ph.confidence ELSE 0],
      overall_confidence |-> 60, raw_text |-> raw, completed |-> TRUE] :
        n \in {[value |-> None, confidence |-> 0], [value |-> V_ocr, confidence |-> 60]},
        ph \in {[value |-> None, confidence |-> 0], [value |-> PhoneLocal, confidence |-> 90],
                [value |-> PhoneLocal, confidence |-> 0]},
        raw \in {<<>>, V_ocr}}

AiFields ==
    {[kind |-> k, value |-> None, confidence |-> 0] : k \in {"absent", "not_a_dict"}} \cup
    {[kind |-> "dict", value |-> v, confidence |-> c] :
        v \in {None, V_ai}, c \in {NoNumber, 40, 60, 95}}

AiResults ==
    {[outcome |-> "extracted", overall_confidence |-> oc,
      fields |-> [f \in MergeFieldSet |->
                     IF f = F_name THEN n ELSE IF f = F_phone THEN ph
                     ELSE [kind |-> "absent", value |-> None, confidence |-> 0]]] :
        oc \in {0, 80}, n \in AiFields, ph \in AiFields}
    \cup {[outcome |-> o, overall_confidence |-> 0,
           fields |-> [f \in MergeFieldSet |->
                          [kind |-> "absent", value |-> None, confidence |-> 0]]] :
             o \in {"raise", "parse_error"}}

\* contacts as to_contact_list returns them, with or without an industry column
MergeContacts ==
    {<<[f \in {F_name} |-> V_ocr]>>,
     <<[f \in {F_name, F_industry} |-> IF f = F_name THEN V_ocr ELSE V_finance]>>,
     <<[f \in {F_name, F_industry} |-> IF f = F_name THEN V_ocr ELSE None]>>,
     <<[f \in {F_name, F_industry} |-> IF f = F_name THEN V_ocr ELSE V_finance],
       [f \in {F_name, F_industry} |-> IF f = F_name THEN V_ai ELSE V_finance]>>}

MergeIdle == card = [op |-> "none"]

\* the harness starts from an OCR result or from a contact list
MergeInputs ==
    {[op |-> "ocr", before |-> result] : result \in OcrResults}
    \cup {[op |-> "contacts", before |-> contacts] : contacts \in MergeContacts}

ScanNamecard ==
    /\ card.op = "ocr"
    /\ \E result \in {card.before}, use_ai_extraction \in BOOLEAN, ai_result \in AiResults :
          card' = [op |-> "scan", before |-> result, use_ai |-> use_ai_extraction,
                   ai |-> ai_result,
                   after |-> enhance_extraction(result, use_ai_extraction, ai_result)]
    /\ UNCHANGED <<pipelineVars, phoneVars, nameVars, detectVars, dedupVars, concurrentVars>>

\* ai[i] is the outcome of categorize_contact for contact i and confidence[i] the
\* confidence that its reply carries
CategorizeContacts ==
    /\ card.op = "contacts"
    /\ \E contacts \in {card.before} :
       \E ai \in [1..Len(contacts) -> AIReplies], confidence \in [1..Len(contacts) -> {0, 100}] :
          card' = [op |-> "categorize", before |-> contacts, ai |-> ai,
                   confidence |-> confidence, after |-> categorize_from(contacts, ai, 1)]
    /\ UNCHANGED <<pipelineVars, phoneVars, nameVars, detectVars, dedupVars, concurrentVars>>

----------------------------------------------------------------------------
(* The service: requests arrive one at a time; each handler runs to its    *)
(* response without suspending once the upload has been read.              *)

FN_contacts == <<"c", "o", "n", "t", "a", "c", "t", "s", ".", "c", "s", "v">>
FN_notes == <<"n", "o", "t", "e", "s", ".", "t", "x", "t">>
UploadNames == {FN_contacts, FN_notes, <<>>}

EmptyBytes == Bytes(0, FALSE, <<>>, <<>>)
Garbage == Bytes(1, FALSE, <<>>, <<>>)
HeaderOnly == Bytes(1, TRUE, <<H_Name, H_ContactNo>>, <<>>)
SheetHeaders ==
    Bytes(1, TRUE, <<H_Name, H_ContactNo, H_Email>>,
          <<<<<<"d", "a", "t", "o", "'", " ", "A", "H", "M", "A", "D", " ", "b", "i", "n", " ", "a", "b", "d", "u", "l", "l", "a", "h">>, PhoneLocal, <<"a", "l", "i", "@", "x", ".", "m", "y">>>>,
            <<None, PhoneIntl, <<" ", "A", "l", "i", "@", "X", ".", "m", "y">>>>,
            <<<<"s", "i", "t", "i">>, PhoneOther, None>>>>)
SheetCanonical ==
    Bytes(1, TRUE, <<F_name, F_phone>>,
          <<<<<<"a", "l", "i", " ", "b", "i", "n", " ", "a", "b", "u">>, PhoneLocal>>,
            <<None, None>>,
            <<<<"A", "L", "I">>, PhoneIntl>>>>)
Uploads == {EmptyBytes, Garbage, HeaderOnly, SheetHeaders, SheetCanonical}

InvalidJSON == [valid |-> FALSE, value |-> <<>>]
JSON(m) == [valid |-> TRUE, value |-> m]
MappingForms ==
    {InvalidJSON,
     JSON(<<M(H_Name, F_name), M(H_ContactNo, F_phone), M(H_Email, F_email)>>),
     JSON(<<M(F_name, F_name), M(F_phone, F_phone)>>)}

NoRequest == [op |-> "none"]
NoResponse == http_error("none", <<>>, 0, "")

Callers == {"a", "b"}

\* start-up with settings.debug = dbg
PipelineStart(dbg) ==
    /\ temp_storage = <<>>
    /\ debug = dbg
    /\ uploaded = [c \in Callers |-> <<>>]
    /\ analyzed = {}
    /\ request = NoRequest
    /\ response = NoResponse

\* DEBUG is unset in the environment: settings.debug is False
PipelineIdle == PipelineStart(FALSE)

Analyze ==
    /\ \E filename \in UploadNames, file_content \in Uploads, ai \in {"raise", "insights"} :
          \E r \in {analyze_spreadsheet(temp_storage, filename, file_content, ai)} :
             /\ temp_storage' = r.store
             /\ request' = [op |-> "analyze", filename |-> filename, file |-> file_content,
                             ai |-> ai]
             /\ response' = r.response
             /\ analyzed' = IF r.response.success THEN analyzed \cup {filename} ELSE analyzed
    /\ UNCHANGED <<debug, uploaded>>
    /\ UNCHANGED <<phoneVars, nameVars, detectVars, dedupVars, mergeVars, concurrentVars>>

Process ==
    /\ \E filename \in UploadNames, mappings_json \in MappingForms,
          clean_phones \in BOOLEAN, remove_duplicates \in BOOLEAN, auto_categorize \in BOOLEAN :
          \E p \in {process_contacts(temp_storage, filename, mappings_json, clean_phones,
                                       remove_duplicates)} :
          \E ai \in [1..(IF auto_categorize THEN Len(p.contacts) ELSE 0) -> AIReplies] :
          \E r \in {process_spreadsheet(temp_storage, filename, p, auto_categorize, ai)} :
                   /\ temp_storage' = r.store
                   /\ request' = [op |-> "process", filename |-> filename,
                                  column_mappings |-> mappings_json,
                                  clean_phones |-> clean_phones,
                                  remove_duplicates |-> remove_duplicates,
                                  auto_categorize |-> auto_categorize, ai |-> ai]
                   /\ response' = r.response
                   /\ analyzed' = IF r.response.success THEN analyzed \ {filename} ELSE analyzed
    /\ UNCHANGED <<debug, uploaded>>
    /\ UNCHANGED <<phoneVars, nameVars, detectVars, dedupVars, mergeVars, concurrentVars>>

\* the two endpoints called by two callers, who confirm the standard field names
\* as the mapping, leave clean_phones and remove_duplicates at their defaults and
\* do not ask for categorization
FN_leads == <<"l", "e", "a", "d", "s", ".", "c", "s", "v">>
CallerFiles == {FN_contacts, FN_leads}
CallerUploads == {SheetHeaders, SheetCanonical}
CallerMapping == JSON(<<M(F_name, F_name), M(F_phone, F_phone)>>)

CallerAnalyze ==
    /\ \E caller \in Callers, filename \in CallerFiles, file_content \in CallerUploads :
          \E r \in {analyze_spreadsheet(temp_storage, filename, file_content, "insights")} :
             /\ temp_storage' = r.store
             /\ request' = [op |-> "analyze", caller |-> caller, filename |-> filename,
                             file |-> file_content]
             /\ response' = r.response
             /\ uploaded' = IF r.response.success
                             THEN [uploaded EXCEPT ![caller] = dict_set(@, filename, file_content)]
                             ELSE uploaded
    /\ UNCHANGED <<debug, analyzed>>
    /\ UNCHANGED <<phoneVars, nameVars, detectVars, dedupVars, mergeVars, concurrentVars>>

CallerProcess ==
    /\ \E caller \in Callers, filename \in CallerFiles :
          \E p \in {process_contacts(temp_storage, filename, CallerMapping, TRUE, TRUE)} :
          \E r \in {process_spreadsheet(temp_storage, filename, p, FALSE, <<>>)} :
             /\ temp_storage' = r.store
             /\ request' = [op |-> "process", caller |-> caller, filename |-> filename,
                             column_mappings |-> CallerMapping]
             /\ response' = r.response
             /\ uploaded' = IF r.response.success
                             THEN [uploaded EXCEPT ![caller] =
                                      [f \in DOMAIN @ \ {filename} |-> @[f]]]
                             ELSE uploaded
    /\ UNCHANGED <<debug, analyzed>>
    /\ UNCHANGED <<phoneVars, nameVars, detectVars, dedupVars, mergeVars, concurrentVars>>

----------------------------------------------------------------------------
(* Process requests in flight together.  The service runs its handlers as  *)
(* coroutines on one event loop: a handler that has started runs until it  *)
(* awaits or returns, and another request is served only then.  A request  *)
(* is "arrived" when it has been accepted and its handler has not started, *)
(* "looked_up" after a suspension that follows the existence check, and    *)
(* "done" when its response has been sent; pending keeps the response of   *)
(* each process request, and the response to an upload is not recorded.    *)

\* the suspension points in the body of process_spreadsheet: it awaits nothing
process_awaits_after_lookup == {"lookup"}

process_awaits == {}

Requests == {1, 2}

\* the files the callers upload: one sheet with the canonical headers and one
\* with the headers as typed
ConcurrentUploads ==
    {[filename |-> FN_leads, file |-> SheetCanonical],
     [filename |-> FN_contacts, file |-> SheetHeaders]}
InFlight == {"arrived", "looked_up"}

NoProcess ==
    [pc |-> "none", filename |-> <<>>, column_mappings |-> InvalidJSON, stored |-> FALSE,
     content |-> EmptyBytes, overlap |-> FALSE, reupload |-> FALSE, response |-> NoResponse]

ConcurrentIdle == pending = [r \in Requests |-> NoProcess]

\* a process request is accepted; stored and content are what the store holds for
\* its filename, overlap whether the other request is in flight with it
ProcessArrive ==
    /\ \E r \in Requests, filename \in CallerFiles, mappings_json \in {CallerMapping, InvalidJSON} :
          /\ pending[r].pc = "none"
          /\ pending' =
                [q \in Requests |->
                    IF q = r
                    THEN [NoProcess EXCEPT
                            !.pc = "arrived", !.filename = filename,
                            !.column_mappings = mappings_json,
                            !.stored = filename \in DOMAIN temp_storage,
                            !.content = IF filename \in DOMAIN temp_storage
                                        THEN temp_storage[filename] ELSE EmptyBytes,
                            !.overlap = \E o \in Requests \ {r} : pending[o].pc \in InFlight]
                    ELSE IF pending[q].pc \in InFlight
                         THEN [pending[q] EXCEPT !.overlap = TRUE]
                         ELSE pending[q]]
    /\ UNCHANGED <<pipelineVars, phoneVars, nameVars, detectVars, dedupVars, mergeVars>>

\* the event loop runs the handler of request r up to its next suspension point
\* or to its end
ProcessStep ==
    /\ \E r \in Requests :
          /\ pending[r].pc \in InFlight
          /\ \E filename \in {pending[r].filename} :
             \E p \in {process_contacts(temp_storage, filename, pending[r].column_mappings,
                                         TRUE, TRUE)} :
             \E h \in {IF pending[r].pc = "looked_up" /\ filename \notin DOMAIN temp_storage
                       THEN [store |-> temp_storage,
                             response |-> http_error("process", filename, 500, "KeyError")]
                       ELSE process_spreadsheet(temp_storage, filename, p, FALSE, <<>>)} :
                IF /\ pending[r].pc = "arrived"
                   /\ "lookup" \in process_awaits
                   /\ pending[r].column_mappings.valid
                   /\ filename \in DOMAIN temp_storage
                THEN /\ pending' = [pending EXCEPT ![r].pc = "looked_up"]
                     /\ UNCHANGED temp_storage
                ELSE /\ pending' = [pending EXCEPT ![r].pc = "done", ![r].response = h.response]
                     /\ temp_storage' = h.store
    /\ UNCHANGED <<debug, uploaded, analyzed, request, response>>
    /\ UNCHANGED <<phoneVars, nameVars, detectVars, dedupVars, mergeVars>>

\* an analyze request served from its store on (its only await precedes the store);
\* a request that has arrived for the same filename notes the upload
ConcurrentAnalyze ==
    /\ \E upload \in ConcurrentUploads :
       \E filename \in {upload.filename}, file_content \in {upload.file} :
          \E r \in {analyze_spreadsheet(temp_storage, filename, file_content, "insights")} :
             /\ temp_storage' = r.store
             /\ pending' =
                   [q \in Requests |->
                       IF pending[q].pc # "none" /\ pending[q].filename = filename
                       THEN [pending[q] EXCEPT !.reupload = TRUE]
                       ELSE pending[q]]
    /\ UNCHANGED <<debug, uploaded, analyzed, request, response>>
    /\ UNCHANGED <<phoneVars, nameVars, detectVars, dedupVars, mergeVars>>

\* the responses have been delivered and no request is in flight
ProcessForget ==
    /\ \A r \in Requests : pending[r].pc \notin InFlight
    /\ \E r \in Requests : pending[r].pc = "done"
    /\ pending' = [r \in Requests |-> NoProcess]
    /\ UNCHANGED <<pipelineVars, phoneVars, nameVars, detectVars, dedupVars, mergeVars>>

----------------------------------------------------------------------------
Init == PipelineIdle /\ PhoneIdle /\ NameIdle /\ DetectIdle /\ DedupIdle /\ MergeIdle /\ ConcurrentIdle
Next == Analyze \/ Process
Spec == Init /\ [][Next]_vars

InitPhone ==
    /\ phone \in PhoneInputs
    /\ phone_out = PhoneOutInit
    /\ PipelineIdle /\ NameIdle /\ DetectIdle /\ DedupIdle /\ MergeIdle /\ ConcurrentIdle
NextPhone ==
    \/ PhoneValidate \/ PhoneFormat \/ PhoneFormatLocal
    \/ PhoneNormalize \/ PhoneNormalizeFormatted \/ PhoneIsMalaysian

SpecPhone == InitPhone /\ [][NextPhone]_vars

InitName == PipelineIdle /\ PhoneIdle /\ NameIdle /\ DetectIdle /\ DedupIdle /\ MergeIdle /\ ConcurrentIdle
NextName == NameAppendWord \/ NameLeadingBlank \/ NameMissing \/ NameClean
SpecName == InitName /\ [][NextName]_vars

InitDetect == PipelineIdle /\ PhoneIdle /\ NameIdle /\ DetectIdle /\ DedupIdle /\ MergeIdle /\ ConcurrentIdle
NextDetect == DetectAddColumn \/ DetectColumns
SpecDetect == InitDetect /\ [][NextDetect]_vars

InitDedup == PipelineIdle /\ PhoneIdle /\ NameIdle /\ DetectIdle /\ DedupIdle /\ MergeIdle /\ ConcurrentIdle
NextDedup == DedupAddRow \/ Deduplicate
SpecDedup == InitDedup /\ [][NextDedup]_vars

InitService ==
    /\ \E dbg \in BOOLEAN : PipelineStart(dbg)
    /\ PhoneIdle /\ NameIdle /\ DetectIdle /\ DedupIdle /\ MergeIdle /\ ConcurrentIdle
NextService == CallerAnalyze \/ CallerProcess
SpecService == InitService /\ [][NextService]_vars

InitConcurrent ==
    PipelineIdle /\ PhoneIdle /\ NameIdle /\ DetectIdle /\ DedupIdle /\ MergeIdle /\ ConcurrentIdle
NextConcurrent == ConcurrentAnalyze \/ ProcessArrive \/ ProcessStep \/ ProcessForget
SpecConcurrent == InitConcurrent /\ [][NextConcurrent]_vars

InitMerge ==
    /\ card \in MergeInputs
    /\ PipelineIdle /\ PhoneIdle /\ NameIdle /\ DetectIdle /\ DedupIdle /\ ConcurrentIdle
NextMerge == ScanNamecard \/ CategorizeContacts
SpecMerge == InitMerge /\ [][NextMerge]_vars

InitQuality == PipelineIdle /\ PhoneIdle /\ NameIdle /\ DetectIdle /\ DedupIdle /\ MergeIdle /\ ConcurrentIdle
NextQuality == QualityHeaders \/ QualityAddRow \/ QualityPad \/ ValidateData
SpecQuality == InitQuality /\ [][NextQuality]_vars

InitRowNumbers == PipelineIdle /\ PhoneIdle /\ NameIdle /\ DetectIdle /\ DedupIdle /\ MergeIdle /\ ConcurrentIdle
NextRowNumbers ==
    \/ QualityHeaders \/ QualityAddRow
    \/ ValidateData \/ Deduplicate \/ CleanAndDeduplicate
SpecRowNumbers == InitRowNumbers /\ [][NextRowNumbers]_vars

----------------------------------------------------------------------------
(* Properties of the handlers (checked under Spec) *)

\* every key of the mapping is a column header of the uploaded table
confirmed_mapping(m, file) ==
    /\ m # <<>>
    /\ \A i \in 1..Len(m) : \E c \in 1..Len(file.columns) : file.columns[c] = m[i].orig

\* C1: a process request for a filename succeeds only if an analyze request for
\* that filename completed successfully before it and no process request for it
\* has succeeded since that analyze.
C1_ProcessOnlyAfterAnalyze ==
    [][(response'.op = "process" /\ response'.success)
          => response'.filename \in analyzed]_vars

\* C2: with a confirmed mapping, every row that survives deduplication and has a
\* cleaned name or a cleaned phone yields a contact carrying those cleaned values,
\* and only the rows with neither are dropped.
C2_RowsBecomeContacts ==
    [][(/\ response'.op = "process"
        /\ response'.success
        /\ confirmed_mapping(request'.column_mappings.value, temp_storage[request'.filename]))
          => \A file \in {temp_storage[request'.filename]} :
             \A m \in {request'.column_mappings.value} :
             \A cleaned \in {clean_data(DataFrame(file.columns, file.rows), m,
                                         request'.clean_phones)} :
             \A survivors \in {IF request'.remove_duplicates
                                THEN deduplicate(cleaned, m).df ELSE cleaned} :
             LET cell(r, f) == IF has_column(survivors, f)
                               THEN survivors.rows[r][column_pos(survivors, f)] ELSE None
                 retained == {r \in 1..df_len(survivors) :
                                 cell(r, F_name) # None \/ cell(r, F_phone) # None}
                 contacts == response'.data.contacts
             IN /\ Len(contacts) = Cardinality(retained)
                /\ \A r \in retained :
                      \E c \in 1..Len(contacts) :
                         /\ dict_get(contacts[c], F_name) = cell(r, F_name)
                         /\ dict_get(contacts[c], F_phone) = cell(r, F_phone)]_vars

\* C3: a process request with remove_duplicates and a confirmed mapping never ends
\* in an internal error, whatever the original headers are.
C3_DedupNoInternalError ==
    (/\ response.op = "process"
     /\ request.column_mappings.valid
     /\ request.remove_duplicates
     /\ request.filename \in DOMAIN temp_storage
     /\ confirmed_mapping(request.column_mappings.value, temp_storage[request.filename]))
        => response.status # 500

----------------------------------------------------------------------------
(* Properties of deduplicate (checked under SpecDedup) *)

\* position i of df is among the rows that deduplicate returned
kept(i) == \E k \in 1..Len(dedup_out.df.index) : dedup_out.df.index[k] = df.index[i]
phone_cell(i) == df.rows[i][column_pos(df, H_ContactNo)]
dedup_returned == dedup_out.done /\ ~dedup_out.raised

\* C4: when phone and email are both mapped, two rows with the same non-empty
\* normalized phone are duplicates whatever their emails: the later one is removed.
C4_PhoneAloneDecides ==
    (dedup_returned /\ std_mapped(column_mappings, F_phone)
                    /\ std_mapped(column_mappings, F_email))
        => \A i, j \in 1..df_len(df) :
              (/\ i < j
               /\ phone_cell(i) # None /\ phone_cell(j) # None
               /\ normalize_phone_for_comparison(phone_cell(i))
                     = normalize_phone_for_comparison(phone_cell(j)))
                 => ~kept(j)

\* C5: of the rows of every reported duplicate group, the returned dataset holds
\* exactly one, the first in the original row order.
C5_GroupKeepsFirst ==
    dedup_returned
        => \A g \in 1..Len(dedup_out.duplicate_groups) :
              LET rows == dedup_out.duplicate_groups[g].row_numbers
                  first == CHOOSE a \in 1..Len(rows) : \A b \in 1..Len(rows) : rows[a] <= rows[b]
              IN \A a \in 1..Len(rows) : kept(rows[a] - 1) <=> (a = first)

\* the subscriber number that a phone cell of the harness writes
Subscriber(cell) ==
    CASE cell = PhoneLocal -> "12-3456789"
      [] cell = PhoneIntl -> "12-3456789"
      [] cell = PhoneOther -> "19-9990000"
      [] OTHER -> "none"

\* C6: with phone as the dedup key, the rows that write one subscriber number (in
\* local or +60 notation) form exactly one reported group when there are two or
\* more of them, one of them (the first) is kept, rows with another number are
\* retained, and duplicates_removed is the sum of the group sizes minus one each;
\* for '012-345 6789', '+6012-3456789', '019-999 0000': one group of 2, 1 removed.
C6_SameSubscriberOneGroup ==
    (dedup_returned /\ std_mapped(column_mappings, F_phone)
                    /\ ~std_mapped(column_mappings, F_email))
        => LET n == df_len(df)
               with_phone == {i \in 1..n : phone_cell(i) # None}
               class(i) == {j \in with_phone :
                               Subscriber(phone_cell(j)) = Subscriber(phone_cell(i))}
               classes == {class(i) : i \in with_phone}
               groups == dedup_out.duplicate_groups
               members(g) == {groups[g].row_numbers[k] - 1 : k \in 1..Len(groups[g].row_numbers)}
           IN /\ \A c \in classes :
                    Cardinality(c) >= 2 =>
                       \E g \in 1..Len(groups) :
                          members(g) = c /\ groups[g].count = Cardinality(c)
              /\ Len(groups) = Cardinality({c \in classes : Cardinality(c) >= 2})
              /\ \A i \in with_phone : kept(i) <=> (\A j \in class(i) : i <= j)
              /\ with_phone = 1..n => dedup_out.duplicate_count = n - Cardinality(classes)
              /\ [i \in 1..n |-> phone_cell(i)] = <<PhoneLocal, PhoneIntl, PhoneOther>>
                    => /\ Len(groups) = 1
                       /\ groups[1].count = 2
                       /\ dedup_out.duplicate_count = 1
                       /\ dedup_out.df.index = <<0, 2>>

C6_Witness ==
    /\ dedup_returned
    /\ column_mappings = <<M(H_ContactNo, F_phone)>>
    /\ [i \in 1..df_len(df) |-> phone_cell(i)] = <<PhoneLocal, PhoneIntl, PhoneOther>>
    /\ dedup_out.duplicate_count = 1

----------------------------------------------------------------------------
(* Properties of the phone utilities (checked under SpecPhone) *)

\* the digits of phone that are left after '+' and separators, then the country
\* code 60, then one leading 0 are removed
RemainingDigits ==
    LET d == SelectSeq(phone, IsDigit)
        a == IF Len(d) >= 2 /\ d[1] = "6" /\ d[2] = "0" THEN SubSeq(d, 3, Len(d)) ELSE d
    IN IF Len(a) >= 1 /\ a[1] = "0" THEN Tail(a) ELSE a

HasMobilePrefix(d) ==
    Len(d) >= 2 /\ d[1] = "1" /\ d[2] \in {"0", "1", "2", "3", "4", "6", "7", "8", "9"}
HasLandlinePrefix(d) ==
    Len(d) >= 1 /\ d[1] \in {"3", "4", "5", "6", "7", "8", "9"}

\* C7: for every phone that validate accepts and whose remaining digits start with
\* a mobile prefix, format is non-null (also on the cleaned string) and the
\* normalized form of the formatted string equals the normalized form of the phone.
C7_RoundTrip ==
    (/\ phone_out.validate # Unset
     /\ phone_out.validate[1]
     /\ HasMobilePrefix(RemainingDigits))
        => /\ phone_out.format # Unset => phone_out.format # None
           /\ format_malaysian_phone(clean_phone_number(phone), TRUE) # None
           /\ (phone_out.normalize # Unset /\ phone_out.normalize_formatted # Unset)
                 => phone_out.normalize_formatted = phone_out.normalize

\* C8: validate of a non-empty phone answers too short when fewer than 8 digits
\* remain, too long when more than 10 remain, invalid prefix when 8 to 10 remain
\* that start with neither a mobile nor a landline prefix, and valid otherwise;
\* '123' is too short and '+60123456789012' is too long.
C8_ValidateLengthBeforePrefix ==
    (phone # <<>> /\ phone_out.validate # Unset)
        => LET d == RemainingDigits
           IN /\ phone_out.validate =
                    IF Len(d) < 8 THEN <<FALSE, MsgTooShort>>
                    ELSE IF Len(d) > 10 THEN <<FALSE, MsgTooLong>>
                    ELSE IF ~HasMobilePrefix(d) /\ ~HasLandlinePrefix(d)
                         THEN <<FALSE, MsgInvalidPrefix>>
                    ELSE <<TRUE, MsgValid>>
              /\ phone = <<"1", "2", "3">> => phone_out.validate = <<FALSE, MsgTooShort>>
              /\ phone = <<"+", "6", "0", "1", "2", "3", "4", "5", "6", "7", "8", "9", "0", "1", "2">> => phone_out.validate = <<FALSE, MsgTooLong>>

C8_Witness ==
    /\ phone = <<"+", "6", "0", "1", "2", "3", "4", "5", "6", "7", "8", "9", "0", "1", "2">>
    /\ phone_out.validate = <<FALSE, MsgTooLong>>

----------------------------------------------------------------------------
(* Properties of the name cleaner (checked under SpecName) *)

\* C9 as stated: the name cleaner turns "dato' AHMAD bin abdullah" into
\* "Dato' AHMAD Bin Abdullah".
C9_HonorificCapitalized ==
    (name = <<"d", "a", "t", "o", "'", " ", "A", "H", "M", "A", "D", " ", "b", "i", "n", " ", "a", "b", "d", "u", "l", "l", "a", "h">> /\ name_out # Unset)
        => name_out = <<"D", "a", "t", "o", "'", " ", "A", "H", "M", "A", "D", " ", "B", "i", "n", " ", "A", "b", "d", "u", "l", "l", "a", "h">>

\* C9 as amended: the name cleaner turns "dato' AHMAD bin abdullah" into
\* "dato' AHMAD Bin Abdullah": the honorific is kept as typed.
C9_HonorificVerbatim ==
    (name = <<"d", "a", "t", "o", "'", " ", "A", "H", "M", "A", "D", " ", "b", "i", "n", " ", "a", "b", "d", "u", "l", "l", "a", "h">> /\ name_out # Unset)
        => name_out = <<"d", "a", "t", "o", "'", " ", "A", "H", "M", "A", "D", " ", "B", "i", "n", " ", "A", "b", "d", "u", "l", "l", "a", "h">>

C9_Witness ==
    /\ name = <<"d", "a", "t", "o", "'", " ", "A", "H", "M", "A", "D", " ", "b", "i", "n", " ", "a", "b", "d", "u", "l", "l", "a", "h">>
    /\ name_out = <<"d", "a", "t", "o", "'", " ", "A", "H", "M", "A", "D", " ", "B", "i", "n", " ", "A", "b", "d", "u", "l", "l", "a", "h">>

----------------------------------------------------------------------------
(* Properties of column detection (checked under SpecDetect) *)

FieldOrder ==
    <<<<"n", "a", "m", "e">>, <<"p", "h", "o", "n", "e">>, <<"e", "m", "a", "i", "l">>, <<"c", "o", "m", "p", "a", "n", "y">>, <<"t", "i", "t", "l", "e">>, <<"i", "n", "d", "u", "s", "t", "r", "y">>, <<"a", "d", "d", "r", "e", "s", "s">>,
      <<"n", "o", "t", "e", "s">>, <<"s", "o", "u", "r", "c", "e">>, <<"s", "t", "a", "t", "u", "s">>>>

\* C10: a header that some keyword contains or is contained in is mapped to the
\* first field, in the order name, phone, email, company, title, industry, address,
\* notes, source, status, that has such a keyword; the confidence is 0.95 when the
\* header equals the first such keyword of that field and 0.8 otherwise; the
\* header 'Phone Number' is mapped to phone with confidence at least 0.8.
C10_FirstFieldWins ==
    \A c \in 1..Len(detect_out) :
        LET h == str_strip(str_lower(detect_out[c].original_name))
            related(kw) == str_contains(h, kw) \/ str_contains(kw, h)
            keywords(f) == COLUMN_MAPPINGS[f].keywords
            hits(f) == {k \in 1..Len(keywords(f)) : related(keywords(f)[k])}
        IN /\ [f \in 1..Len(COLUMN_MAPPINGS) |-> COLUMN_MAPPINGS[f].field] = FieldOrder
           /\ \A f \in 1..Len(FieldOrder) :
                 (hits(f) # {} /\ \A g \in 1..(f - 1) : hits(g) = {})
                    => /\ detect_out[c].mapped_to = FieldOrder[f]
                       /\ detect_out[c].confidence \in {80, 95}
                       /\ detect_out[c].confidence = 95
                             <=> h = keywords(f)[CHOOSE k \in hits(f) : \A j \in hits(f) : k <= j]
           /\ detect_out[c].original_name = <<"P", "h", "o", "n", "e", " ", "N", "u", "m", "b", "e", "r">>
                 => detect_out[c].mapped_to = <<"p", "h", "o", "n", "e">> /\ detect_out[c].confidence >= 80

C10_Witness ==
    \E c \in 1..Len(detect_out) :
        /\ detect_out[c].original_name = <<"P", "h", "o", "n", "e", " ", "N", "u", "m", "b", "e", "r">>
        /\ detect_out[c].mapped_to = <<"p", "h", "o", "n", "e">>
        /\ detect_out[c].confidence = 80


\* the shape that a sample cell of the harness has
Shape(cell) ==
    CASE cell \in {<<"a", "l", "i", "@", "x", ".", "m", "y">>, <<"B", "o", "b", "@", "Y", ".", "c", "o", "m">>} -> "email"
      [] cell \in {<<"0", "1", "2", "-", "3", "4", "5", " ", "6", "7", "8", "9">>, <<"+", "6", "0", "1", "2", "-", "3", "4", "5", "6", "7", "8", "9">>} -> "phone"
      [] cell \in {<<"A", "l", "i", " ", "B", "i", "n", " ", "A", "b", "u">>, <<"d", "a", "t", "o", "'", " ", "A", "H", "M", "A", "D">>} -> "name"
      [] OTHER -> "other"

----------------------------------------------------------------------------
(* Further properties of the phone utilities (checked under SpecPhone) *)

\* C14: for every non-empty raw string the normalized form consists of digits
\* only, starts with the country code 60, and the digit after the initial 60 is
\* not a 0.
C14_NormalizedCanonical ==
    (phone # <<>> /\ phone_out.normalize # Unset)
        => LET n == phone_out.normalize
           IN /\ \A i \in 1..Len(n) : n[i] \in {"0", "1", "2", "3", "4", "5", "6", "7", "8", "9"}
              /\ Len(n) >= 2 /\ n[1] = "6" /\ n[2] = "0"
              /\ Len(n) >= 3 => n[3] # "0"

\* C15: format returns null exactly when the phone is empty, or fewer than 8 or
\* more than 10 digits remain, or the remaining digits start with neither a mobile
\* nor a landline prefix; with and without the country code it is null for the
\* same phones.
C15_FormatNullExactly ==
    LET d == RemainingDigits
        rejected == \/ phone = <<>>
                    \/ Len(d) < 8
                    \/ Len(d) > 10
                    \/ ~HasMobilePrefix(d) /\ ~HasLandlinePrefix(d)
    IN /\ phone_out.format # Unset => (phone_out.format = None <=> rejected)
       /\ phone_out.format_local # Unset => (phone_out.format_local = None <=> rejected)
       /\ (phone_out.format # Unset /\ phone_out.format_local # Unset)
             => (phone_out.format = None <=> phone_out.format_local = None)

C15_Witness ==
    /\ phone = RawPhone(<<"+", "6", "0">>, <<"0">>, <<"1", "2">>, 7, <<" ">>)
    /\ phone_out.format = <<"+", "6", "0", " ", "1", "2", "-", "3", "4", "5", " ", "6", "7", "8", "9">>
    /\ phone_out.format_local = <<"0", "1", "2", "-", "3", "4", "5", " ", "6", "7", "8", "9">>

\* C16: is_malaysian_number answers true exactly when the digits that remain after
\* the '+', the country code 60 and a leading 0 are removed start with a mobile or
\* a landline prefix.
C16_MalaysianByPrefix ==
    phone_out.is_malaysian # <<>>
        => (phone_out.is_malaysian[1]
               <=> (HasMobilePrefix(RemainingDigits) \/ HasLandlinePrefix(RemainingDigits)))

----------------------------------------------------------------------------
\* the rows of df whose Name cell is missing, counted from the sheet itself
name_mapped == std_mapped(column_mappings, F_name)
rows_missing_name == {i \in 1..Len(df.rows) : df.rows[i][1] = None}
validated == quality_out.done /\ ~quality_out.raised

\* C12: in the quality report, whenever the column mapped to name has k >= 1
\* rows with a missing value, missing_name_count equals k and quality_score is
\* strictly less than 100 (1000 tenths), whatever the size of the dataset.
C12_MissingNameLowersScore ==
    (validated /\ name_mapped /\ rows_missing_name # {}) =>
        /\ quality_out.missing_name_count = Cardinality(rows_missing_name)
        /\ quality_out.quality_score < 1000

\* the count alone, and the score of a sheet of at most MaxRows rows
C12_CountAndSmallSheet ==
    (validated /\ name_mapped /\ rows_missing_name # {}) =>
        /\ quality_out.missing_name_count = Cardinality(rows_missing_name)
        /\ df_len(df) <= MaxRows => quality_out.quality_score < 1000

----------------------------------------------------------------------------
\* what a cell of the harness sheet denotes: spellings of one phone number or one
\* address share a class, a missing cell has none
CellClass(cell) ==
    CASE cell = PhoneLocal -> "phone 12-345 6789"
      [] cell = PhoneIntl -> "phone 12-345 6789"
      [] cell = PhoneOther -> "phone 19-999 0000"
      [] cell = PhoneBad -> "phone 123"
      [] cell = <<"a", "l", "i", "@", "x", ".", "m", "y">> -> "ali@x.my"
      [] cell = <<" ", "A", "l", "i", "@", "X", ".", "m", "y">> -> "ali@x.my"
      [] cell = EmailBad -> "not-an-email"
      [] cell = <<"A", "l", "i", " ", "b", "i", "n", " ", "A", "b", "u">> -> "ali bin abu"
      [] cell = <<"S", "i", "t", "i">> -> "siti"
      [] OTHER -> "none"

\* the column of the harness sheet a duplicate group is about
KeyColumn(key) == CASE key = F_name -> 1 [] key = F_phone -> 2 [] key = F_email -> 3

\* the defect an issue reports, read from the row of the sheet
Defect(description, row) ==
    CASE description = "Missing contact name" -> row[1] = None
      [] description = "Invalid phone: " -> row[2] = PhoneBad
      [] description = "Invalid email format" -> row[3] = EmailBad
      [] OTHER -> FALSE
Reported(description) ==
    CASE description = "Missing contact name" -> std_mapped(column_mappings, F_name)
      [] description = "Invalid phone: " -> std_mapped(column_mappings, F_phone)
      [] description = "Invalid email format" -> std_mapped(column_mappings, F_email)

\* the rows of the sheet df, by zero-based index
RowIndexes == 0..(df_len(df) - 1)
RowAt(idx) == df.rows[idx + 1]

\* C13: every row number of a data-quality issue and of a duplicate group is the
\* zero-based index, in the original sheet, of the row it is about, plus 2; this
\* holds too for the groups computed from the cleaned sheet.
C13_RowNumberIsIndexPlusTwo ==
    /\ validated =>
          /\ \A k \in 1..Len(quality_out.issues) :
                \E idx \in RowIndexes :
                   /\ quality_out.issues[k].row_number = idx + 2
                   /\ Defect(quality_out.issues[k].description[1], RowAt(idx))
          /\ \A d \in {"Missing contact name", "Invalid phone: ", "Invalid email format"} :
                Reported(d) =>
                   \A idx \in RowIndexes :
                      Defect(d, RowAt(idx)) =>
                         Cardinality({k \in 1..Len(quality_out.issues) :
                                         /\ quality_out.issues[k].description[1] = d
                                         /\ quality_out.issues[k].row_number = idx + 2}) = 1
    /\ dedup_returned =>
          \A g \in 1..Len(dedup_out.duplicate_groups) :
             \A group \in {dedup_out.duplicate_groups[g]} :
                /\ Len(group.row_numbers) >= 2
                /\ \A k \in 1..(Len(group.row_numbers) - 1) :
                      group.row_numbers[k] < group.row_numbers[k + 1]
                /\ \A k \in 1..Len(group.row_numbers) :
                      \E idx \in RowIndexes :
                         /\ group.row_numbers[k] = idx + 2
                         /\ CellClass(RowAt(idx)[KeyColumn(group.key)]) # "none"
                         /\ CellClass(RowAt(idx)[KeyColumn(group.key)])
                              = CellClass(RowAt(group.row_numbers[1] - 2)[KeyColumn(group.key)])

\* a sheet whose first and third rows are one subscriber and whose third row has a
\* malformed email: the group of the cleaned sheet lists rows 2 and 4, an issue row 4
C13_Witness ==
    /\ validated /\ dedup_returned
    /\ df_len(df) = 3
    /\ \E k \in 1..Len(quality_out.issues) : quality_out.issues[k].row_number = 4
    /\ \E g \in 1..Len(dedup_out.duplicate_groups) :
          dedup_out.duplicate_groups[g].row_numbers = <<2, 4>>
    /\ dedup_out.df.rows[1] # df.rows[1]

----------------------------------------------------------------------------
CanonicalFields == {F_name, F_phone, F_email}

\* C17: a failure of the language-model collaborator never fails the primary
\* operation.  An analyze request whose upload is a readable, non-empty sheet
\* succeeds with one mapping per column and the quality report when the AI
\* analysis raises; a process request whose clean, deduplicate and convert steps
\* succeed returns success when categorize_contact raises for some contact, with
\* the contacts of those steps, their name, phone and email as those steps left them.
C17_AIFailureIsSwallowed ==
    [][/\ (/\ request'.op = "analyze" /\ request'.ai = "raise"
            /\ request'.filename = FN_contacts
            /\ request'.file.readable /\ request'.file.rows # <<>>)
           => /\ response'.success
              /\ Len(response'.data.column_mappings) = Len(request'.file.columns)
              /\ \A c \in 1..Len(request'.file.columns) :
                    response'.data.column_mappings[c].original_name = request'.file.columns[c]
              /\ Len(response'.data.quality_report) = 1
              /\ response'.data.quality_report[1].total_rows = Len(request'.file.rows)
       /\ (/\ request'.op = "process" /\ request'.auto_categorize
            /\ \E i \in DOMAIN request'.ai : request'.ai[i] = "raise")
           => \A p \in {process_contacts(temp_storage, request'.filename,
                                           request'.column_mappings, request'.clean_phones,
                                           request'.remove_duplicates)} :
                 p.status = 200 =>
                    /\ response'.success
                    /\ Len(response'.data.contacts) = Len(p.contacts)
                    /\ \A i \in 1..Len(p.contacts) :
                          \A f \in CanonicalFields \cap DOMAIN p.contacts[i] :
                             /\ f \in DOMAIN response'.data.contacts[i]
                             /\ response'.data.contacts[i][f] = p.contacts[i][f]
      ]_vars

\* categorization succeeded for the first contact and raised for the second: the
\* response is a success, the first contact is categorized, both are returned
C17_Witness ==
    /\ request.op = "process" /\ request.auto_categorize
    /\ Len(response.data.contacts) = 2
    /\ request.ai[1] = "categorized" /\ request.ai[2] = "raise"
    /\ response.success
    /\ K_category \in DOMAIN response.data.contacts[1]
    /\ K_category \notin DOMAIN response.data.contacts[2]

----------------------------------------------------------------------------
GenericDetail == "An unexpected error occurred"

\* C18: with debug mode off, the response to a request that hit an unexpected
\* internal exception (status 500) is generic: its detail is the fixed text, not
\* the message of the exception.
C18_InternalErrorIsGeneric ==
    (~debug /\ response.status = 500) => response.detail = GenericDetail

\* C19: requests of different callers do not interfere.  Whenever a caller sends a
\* process request for a file it has analyzed and not processed since, the handler
\* finds that file in the store with the bytes this caller uploaded, whatever the
\* other caller has requested in between.
C19_CallersDoNotInterfere ==
    [][\A caller \in Callers :
          (/\ request'.op = "process" /\ request'.caller = caller
           /\ request'.filename \in DOMAIN uploaded[caller])
          => /\ request'.filename \in DOMAIN temp_storage
             /\ temp_storage[request'.filename] = uploaded[caller][request'.filename]
      ]_vars

----------------------------------------------------------------------------
\* C20: in the summary of a process response, failed is the number of rows dropped
\* at conversion for having neither a name nor a phone, that is the rows processed
\* that are neither returned as contacts nor removed as duplicates; the rows removed
\* as duplicates are counted in duplicates_removed only.
C20_FailedExcludesDuplicates ==
    (response.op = "process" /\ response.success) =>
        \A summary \in {response.data.summary[1]} :
           summary.failed
             = summary.total_processed - summary.duplicates_removed - summary.successful

----------------------------------------------------------------------------
\* C22: a process request that ends in an error leaves the temporary store as it
\* was; an entry is deleted only by a process request that succeeds, and then it is
\* the entry of that request's filename alone.
C22_FailedProcessKeepsStore ==
    [][request'.op = "process" =>
          /\ ~response'.success => temp_storage' = temp_storage
          /\ temp_storage' # temp_storage =>
                /\ response'.success
                /\ request'.filename \in DOMAIN temp_storage
                /\ temp_storage' = [f \in DOMAIN temp_storage \ {request'.filename} |->
                                       temp_storage[f]]
      ]_vars

\* a process request failed with an internal error on a stored file and the file
\* is still stored
C22_Witness ==
    /\ request.op = "process" /\ response.status = 500
    /\ request.filename \in DOMAIN temp_storage

\* C23: an analyze request that is rejected with an error leaves the temporary
\* store unchanged: no entry for its filename is created or overwritten.
C23_RejectedAnalyzeKeepsStore ==
    [][(request'.op = "analyze" /\ ~response'.success) => temp_storage' = temp_storage]_vars

----------------------------------------------------------------------------
\* the columns of the harness sheet that deduplicate compares under the mapping
KeyCells(i) ==
    (IF std_mapped(column_mappings, F_phone) THEN {df.rows[i][2]} ELSE {})
      \cup (IF std_mapped(column_mappings, F_email) THEN {df.rows[i][3]} ELSE {})
      \cup (IF /\ std_mapped(column_mappings, F_name)
                /\ ~std_mapped(column_mappings, F_phone)
                /\ ~std_mapped(column_mappings, F_email) THEN {df.rows[i][1]} ELSE {})
grouped(i) ==
    \E g \in 1..Len(dedup_out.duplicate_groups) :
       \E k \in 1..Len(dedup_out.duplicate_groups[g].row_numbers) :
          dedup_out.duplicate_groups[g].row_numbers[k] = df.index[i] + 2

\* C24: deduplicate leaves every row whose dedup key is empty untouched: a row
\* with no value in the key columns is in no duplicate group and stays in the
\* output, however many such rows there are; so every removed row is in a group.
C24_EmptyKeyUntouched ==
    dedup_returned =>
        \A i \in 1..df_len(df) :
           /\ (KeyCells(i) = {None}) => (~grouped(i) /\ kept(i))
           /\ ~kept(i) => grouped(i)

----------------------------------------------------------------------------
\* s is '+60 ' followed by a, b and c digits written as 'A-B C'
InternationalShape(s, a, b, c) ==
    /\ Len(s) = 4 + a + 1 + b + 1 + c
    /\ SubSeq(s, 1, 4) = <<"+", "6", "0", " ">>
    /\ s[4 + a + 1] = "-"
    /\ s[4 + a + 1 + b + 1] = " "
    /\ \A i \in 5..Len(s) : i \notin {4 + a + 1, 4 + a + 1 + b + 1} => IsDigit(s[i])

\* C25: every non-null result of format with the country code has the stated
\* shape, whatever the accepted digit length (8, 9 or 10): '+60 XX-XXX XXXX' for a
\* mobile number and '+60 X-XXXX XXXX' for a landline number.
C25_FormatShape ==
    (phone_out.format # Unset /\ phone_out.format # None)
        => IF HasMobilePrefix(RemainingDigits)
           THEN InternationalShape(phone_out.format, 2, 3, 4)
           ELSE InternationalShape(phone_out.format, 1, 4, 4)

\* the shape for the one digit length that has it: nine digits
C25_NineDigitShape ==
    (phone_out.format # Unset /\ phone_out.format # None /\ Len(RemainingDigits) = 9)
        => IF HasMobilePrefix(RemainingDigits)
           THEN InternationalShape(phone_out.format, 2, 3, 4)
           ELSE InternationalShape(phone_out.format, 1, 4, 4)

\* C28: validate and format agree on every input: validate accepts the raw string
\* if and only if format returns a non-null string, with the country code and
\* without it.
C28_ValidateIffFormat ==
    phone_out.validate # Unset =>
        /\ phone_out.format # Unset => (phone_out.validate[1] <=> phone_out.format # None)
        /\ phone_out.format_local # Unset
              => (phone_out.validate[1] <=> phone_out.format_local # None)

\* a number of the longest accepted length, accepted and formatted both ways
C28_Witness ==
    /\ Len(RemainingDigits) = 10
    /\ phone_out.validate = <<TRUE, MsgValid>>
    /\ phone_out.format \notin {Unset, None}
    /\ phone_out.format_local \notin {Unset, None}

----------------------------------------------------------------------------
\* what the rule of C26 makes of each word of the harness, read as a table: the
\* word itself when it is an honorific or upper-case, its title case otherwise
TitleCased(word) ==
    CASE word = <<"b", "i", "n">> -> <<"B", "i", "n">>
      [] word = <<"a", "b", "d", "u", "l", "l", "a", "h">> -> <<"A", "b", "d", "u", "l", "l", "a", "h">>
      [] word = <<"s", "r", "i">> -> <<"S", "r", "i">>
      [] OTHER -> word
\* word i is one half of the two-word honorific Tan Sri, in any casing
InTanSri(words, i) ==
    \/ i < Len(words) /\ words[i] = <<"T", "a", "n">> /\ words[i + 1] = <<"s", "r", "i">>
    \/ i > 1 /\ words[i - 1] = <<"T", "a", "n">> /\ words[i] = <<"s", "r", "i">>
ExpectedWord(words, i) == IF InTanSri(words, i) THEN words[i] ELSE TitleCased(words[i])

\* C26: the name cleaner keeps the number and order of the words and returns each
\* word verbatim if it is an honorific of the list in any casing (the two-word
\* honorific Tan Sri included) or fully upper-case, and in title case otherwise.
C26_WordByWord ==
    (name_out # Unset /\ name # None) =>
        \A words \in {str_split(name)} :
           IF words = <<>> THEN name_out = None
           ELSE \A out \in {str_split(name_out)} :
                   /\ Len(out) = Len(words)
                   /\ \A i \in 1..Len(words) : out[i] = ExpectedWord(words, i)

\* the same without the two-word honorific: each word on its own
C26_SingleWords ==
    (name_out # Unset /\ name # None) =>
        \A words \in {str_split(name)} :
           IF words = <<>> THEN name_out = None
           ELSE \A out \in {str_split(name_out)} :
                   /\ Len(out) = Len(words)
                   /\ \A i \in 1..Len(words) : out[i] = TitleCased(words[i])

----------------------------------------------------------------------------
\* C27: detect_columns returns exactly one mapping per column of the sheet, in
\* column order; in each, mapped_to is null or one of the ten canonical fields, it
\* is null exactly when the confidence is 0, the confidence is one of 0, 0.7, 0.8,
\* 0.85, 0.9, 0.95 (in hundredths here) and there are at most 5 sample values.
C27_MappingWellFormed ==
    detect_out # <<>> =>
        /\ Len(detect_out) = Len(sheet.columns)
        /\ \A c \in 1..Len(detect_out) :
              /\ detect_out[c].original_name = sheet.columns[c]
              /\ \/ detect_out[c].mapped_to = None
                 \/ \E f \in 1..Len(FieldOrder) : detect_out[c].mapped_to = FieldOrder[f]
              /\ detect_out[c].mapped_to = None <=> detect_out[c].confidence = 0
              /\ detect_out[c].confidence \in {0, 70, 80, 85, 90, 95}
              /\ Len(detect_out[c].sample_values) <= 5

\* a sheet of two columns, the first left unmapped, the second mapped from its
\* content with five samples
C27_Witness ==
    /\ Len(detect_out) = 2
    /\ detect_out[1].mapped_to = None /\ detect_out[1].confidence = 0
    /\ detect_out[2].mapped_to = F_phone /\ detect_out[2].confidence = 85
    /\ Len(detect_out[2].sample_values) = 5

\* C30: the keyword table is consistent with first-match detection: a header that
\* equals a keyword listed for a field is mapped to that field with confidence 0.95.
C30_KeywordHeaderMapsToItsField ==
    \A c \in 1..Len(detect_out) :
       \A f \in 1..Len(COLUMN_MAPPINGS) :
          \A k \in 1..Len(COLUMN_MAPPINGS[f].keywords) :
             detect_out[c].original_name = COLUMN_MAPPINGS[f].keywords[k]
                => /\ detect_out[c].mapped_to = COLUMN_MAPPINGS[f].field
                   /\ detect_out[c].confidence = 95

\* the merge replaced the non-empty value that the heuristic pipeline had for field f
Replaced(before, after, f) ==
    /\ dict_get(before, f) \notin {None, <<>>}
    /\ dict_get(after, f) # dict_get(before, f)

\* C21: collaborator output is merged into a field only when its confidence for the
\* field exceeds the heuristic's: a non-empty heuristic value (an OCR-parsed field in
\* the namecard scan, the sheet's industry in process) is replaced only if the AI
\* confidence is strictly greater than the heuristic confidence, and the recorded
\* confidence of a field never decreases.  A value read from a sheet has a heuristic
\* confidence of at least 0, so a reply of confidence 0 can never exceed it.
C21_MergeOnlyOnHigherConfidence ==
    /\ card.op = "scan" =>
          \A k \in 1..Len(MergeFields) :
             \A f \in {MergeFields[k]} :
                /\ Replaced(card.before.contact, card.after.contact, f)
                      => /\ card.ai.outcome = "extracted"
                         /\ card.ai.fields[f].kind = "dict"
                         /\ card.after.contact[f] = card.ai.fields[f].value
                         /\ card.ai.fields[f].confidence > card.before.confidence_scores[f]
                /\ card.after.confidence_scores[f] >= card.before.confidence_scores[f]
    /\ card.op = "categorize" =>
          \A i \in 1..Len(card.before) :
             Replaced(card.before[i], card.after[i], F_industry) => card.confidence[i] > 0

\* the namecard half of C21 alone: the scan merge replaces an OCR value only on a
\* strictly greater AI confidence and never lowers a recorded confidence
C21_ScanMerge ==
    card.op = "scan" =>
       \A k \in 1..Len(MergeFields) :
          \A f \in {MergeFields[k]} :
             /\ Replaced(card.before.contact, card.after.contact, f)
                   => card.ai.fields[f].confidence > card.before.confidence_scores[f]
             /\ card.after.confidence_scores[f] >= card.before.confidence_scores[f]

NotFoundDetail == "File not found. Please upload and analyze first."

\* both requests have been answered, they were in flight together for one filename
\* that was stored when each arrived, and that filename has not been uploaded since
RanConcurrently ==
    /\ \A r \in Requests :
          /\ pending[r].pc = "done"
          /\ pending[r].overlap
          /\ ~pending[r].reupload
          /\ pending[r].stored
    /\ pending[1].filename = pending[2].filename

\* exactly one request succeeded and removed the entry, the other was rejected
\* with the 400 'File not found' error
OneWinsOtherNotFound ==
    \E r \in Requests :
       /\ pending[r].response.success /\ pending[r].response.status = 200
       /\ pending[r].filename \notin DOMAIN temp_storage
       /\ \A o \in Requests \ {r} :
             /\ ~pending[o].response.success
             /\ pending[o].response.status = 400
             /\ pending[o].response.detail = NotFoundDetail

\* a request that is processed successfully when it runs on its own: a well-formed
\* mapping of the canonical headers on a sheet that has them
SucceedsAlone(r) ==
    /\ pending[r].column_mappings = CallerMapping
    /\ pending[r].content = SheetCanonical

\* C29 as stated: when two process requests for the same stored filename run
\* concurrently, exactly one succeeds and deletes the entry and the other is
\* rejected with 400 'File not found'.
C29_ExactlyOneSucceeds ==
    RanConcurrently => OneWinsOtherNotFound

\* C29, amended: when two process requests for the same stored filename, each of
\* which would succeed on its own, run concurrently, exactly one succeeds and
\* deletes the entry and the other is rejected with 400 'File not found'; and
\* whatever the requests, none that ran concurrently with the other for a stored
\* filename fails with an internal error because the entry was deleted under it
\* (a 500 is the one the request gets on its own, and then both get it and the
\* entry is still stored).
C29_ConcurrentProcessSerializes ==
    RanConcurrently =>
       /\ (\A r \in Requests : SucceedsAlone(r)) => OneWinsOtherNotFound
       /\ \A r \in Requests :
             pending[r].response.status = 500 =>
                /\ pending[r].filename \in DOMAIN temp_storage
                /\ \A o \in Requests :
                      pending[o].column_mappings.valid => pending[o].response.status = 500

\* two requests for one stored sheet were in flight together; the second to be
\* served found the entry gone
C29_Witness ==
    /\ RanConcurrently
    /\ \A r \in Requests : SucceedsAlone(r)
    /\ pending[1].response.status = 400 /\ pending[1].response.detail = NotFoundDetail
    /\ pending[2].response.success
====
